---- MODULE Spec2Model ----
(***************************************************************************)
(* Wire type model and dispatch generation of the NDC connector SDK.       *)
(*                                                                         *)
(* Go values held in a map[string]any are modelled with their dynamic      *)
(* type: GV(t, v) is a value of Go type t.  JSON documents are modelled as *)
(* trees: JV(j, v) is a JSON value of kind j.  Encoding goes from Go       *)
(* values to JSON trees (Marshal), decoding from JSON trees to Go values   *)
(* (the UnmarshalJSON methods).  A nil and an empty slice or map are the   *)
(* same empty list or empty map in the model.  Error values are the words  *)
(* of the message the code builds; the empty sequence is the nil error.    *)
(***************************************************************************)
EXTENDS Integers, Sequences, FiniteSets, TLC

VARIABLES
    src,     \* how the run started: "value", "payload" or "map"
    union,   \* the union (decoder) the run exercises
    x,       \* the typed variant struct a round trip starts from
    m,       \* the raw map produced by Encode
    base,    \* the JSON payload without additional keys
    wire,    \* the JSON payload handed to UnmarshalJSON
    mut,     \* how the payload departs from a valid one
    dec,     \* outcome of UnmarshalJSON: [err, val], val the receiver
    acc,     \* the narrowing accessor that was called
    nar,     \* outcome of the accessor: [err, val]
    m2,      \* the raw map produced by encoding the narrowed value again
    pc,      \* position of the run
    rawSchema,  \* the connector schema the dispatch code is generated from
    code,       \* the generated case branches of the two dispatch switches
    request,    \* the request handed to the generated dispatch
    ip,         \* index of the next generated statement; 0 before dispatch
    env,        \* the err, rawResult and result variables of the running branch
    log,        \* what the branch has done so far
    response,   \* what the branch, the query or the generation run returned
    state,         \* the connector state of a query: the database
    typeBuilders,  \* the type builders of a generation run, by package
    files,         \* the files a generation run has written, by path
    writer,        \* the buffered writer of connector.generated.go
    previous       \* the files of the generation run before this one

wireVars == <<src, union, x, m, base, wire, mut, dec, acc, nar, m2, pc>>
genVars == <<rawSchema, code, request, ip, env, log, response>>
runVars == <<state, typeBuilders, files, writer, previous>>
vars == <<wireVars, genVars, runVars>>

----------------------------------------------------------------------------
(* Bounds of the model *)

\* nesting depth of the Type trees
MaxTypeDepth == 3
\* longest list of sub-expressions or comparison values
MaxListLen == 2
\* nesting depth of the Expression trees
MaxExprDepth == 3
\* most fields a request selects
MaxFields == 2
\* most variable sets of a query request
MaxVariables == 2
\* most rows of a database result
MaxRows == 2

----------------------------------------------------------------------------
(* Go values, JSON values, errors *)

\* The dynamic type of a Go value and the kind of a JSON value.
GoType(g) == g.g
Kind(j) == j.j

GV(t, p) == [g |-> t, v |-> p]
JV(k, p) == [j |-> k, v |-> p]

Nil == GV("nil", "nil")

JNull == JV("null", "null")
JStr(s) == JV("string", s)
JBool(b) == JV("bool", b)
JNum(n) == JV("number", n)
JArr(s) == JV("array", s)
JObj(o) == JV("object", o)

NoErr == <<>>
Ok(v) == [err |-> NoErr, val |-> v]
Err(e) == [err |-> e, val |-> Nil]

Range(s) == {s[i] : i \in DOMAIN s}

\* The first error of a sequence of decode outcomes, NoErr when there is none.
RECURSIVE FirstErr(_)
FirstErr(rs) ==
    IF rs = <<>> THEN NoErr
    ELSE IF Head(rs).err # NoErr THEN Head(rs).err ELSE FirstErr(Tail(rs))

\* The outcome of decoding a JSON array element by element, rs the outcomes
\* of the elements: the first error, or the list of the decoded elements.
EachOf(rs) ==
    IF FirstErr(rs) # NoErr THEN Err(FirstErr(rs))
    ELSE Ok([i \in DOMAIN rs |-> rs[i].val])

\* The outcome of decoding a JSON object member by member, rs the outcomes
\* of the members: an error of a member, or the map of the decoded members.
AllOf(rs) ==
    IF \E k \in DOMAIN rs : rs[k].err # NoErr
    THEN Err(rs[CHOOSE k \in DOMAIN rs : rs[k].err # NoErr].err)
    ELSE Ok([k \in DOMAIN rs |-> rs[k].val])

\* json.Unmarshal(b, &raw) with raw a map[string]json.RawMessage:
\* null leaves the map nil, an object gives its members, anything else fails.
UnmarshalRawMap(b) ==
    CASE b.j = "object" -> Ok(b.v)
      [] b.j = "null" -> Ok(<<>>)
      [] OTHER -> Err(<<"json:", "cannot", "unmarshal", b.j, "into", "Go", "value", "of", "type", "map">>)

\* json.Unmarshal(b, &s) with s a string: null leaves s empty.
UnmarshalString(b) ==
    CASE b.j = "string" -> Ok(b.v)
      [] b.j = "null" -> Ok("")
      [] OTHER -> Err(<<"json:", "cannot", "unmarshal", b.j, "into", "Go", "value", "of", "type", "string">>)

\* json.Unmarshal(b, &v) with v a bool: null leaves v false.
UnmarshalBool(b) ==
    CASE b.j = "bool" -> Ok(b.v)
      [] b.j = "null" -> Ok("false")
      [] OTHER -> Err(<<"json:", "cannot", "unmarshal", b.j, "into", "Go", "value", "of", "type", "bool">>)

Contains(values, v) == v \in Range(values)

getStringValueByKey(collection, key) ==
    IF key \notin DOMAIN collection THEN ""
    ELSE IF collection[key].g = "string" THEN collection[key].v ELSE ""

errTypeRequired == <<"type", "field", "is", "required">>

----------------------------------------------------------------------------
(* Type *)

TypeNamed == "named"
TypeNullable == "nullable"
TypeArray == "array"

enumValues_Type == <<TypeNamed, TypeNullable, TypeArray>>

\* ParseTypeEnum taking a word it does not know for the named tag.
ParseTypeEnum_Lenient(input) ==
    IF ~Contains(enumValues_Type, input) THEN Ok(TypeNamed) ELSE Ok(input)

ParseTypeEnum(input) ==
    IF ~Contains(enumValues_Type, input)
    THEN Err(<<"failed", "to", "parse", "TypeEnum,", "expect", "one", "of">> \o enumValues_Type)
    ELSE Ok(input)

TypeEnum_UnmarshalJSON(b) ==
    LET rawValue == UnmarshalString(b) IN
    IF rawValue.err # NoErr THEN Err(rawValue.err)
    ELSE ParseTypeEnum(rawValue.val)

RECURSIVE Type_UnmarshalJSON(_)
Type_UnmarshalJSON(b) ==
    LET r == UnmarshalRawMap(b) IN
    IF r.err # NoErr THEN Err(r.err)
    ELSE LET raw == r.val IN
    IF "type" \notin DOMAIN raw
    THEN Err(<<"field", "type", "in", "Type:", "required">>)
    ELSE LET ty == TypeEnum_UnmarshalJSON(raw["type"]) IN
    IF ty.err # NoErr THEN Err(<<"field", "type", "in", "Type:">> \o ty.err)
    ELSE LET result == [type |-> GV("TypeEnum", ty.val)] IN
    CASE ty.val = TypeNamed ->
           IF "name" \notin DOMAIN raw
           THEN Err(<<"field", "name", "in", "Type", "is", "required", "for", "named", "type">>)
           ELSE LET name == UnmarshalString(raw["name"]) IN
                IF name.err # NoErr THEN Err(<<"field", "name", "in", "Type:">> \o name.err)
                ELSE Ok(result @@ [name |-> GV("string", name.val)])
      [] ty.val = TypeNullable ->
           IF "underlying_type" \notin DOMAIN raw
           THEN Err(<<"field", "underlying_type", "in", "Type", "is", "required", "for", "nullable", "type">>)
           ELSE LET underlyingType == Type_UnmarshalJSON(raw["underlying_type"]) IN
                IF underlyingType.err # NoErr
                THEN Err(<<"field", "underlying_type", "in", "Type:">> \o underlyingType.err)
                ELSE Ok(result @@ [underlying_type |-> GV("Type", underlyingType.val)])
      [] ty.val = TypeArray ->
           IF "element_type" \notin DOMAIN raw
           THEN Err(<<"field", "element_type", "in", "Type", "is", "required", "for", "array", "type">>)
           ELSE LET elementType == Type_UnmarshalJSON(raw["element_type"]) IN
                IF elementType.err # NoErr
                THEN Err(<<"field", "element_type", "in", "Type:">> \o elementType.err)
                ELSE Ok(result @@ [element_type |-> GV("Type", elementType.val)])
      [] OTHER -> Ok(result)

\* The Type() method, which every union writes the same way: the
\* discriminant of a raw map, parsed when it is a string, taken as it is
\* when it already has the enum type, an error for any other dynamic type.
UnionType(j, enumType, Parse(_)) ==
    IF "type" \notin DOMAIN j THEN [err |-> errTypeRequired, val |-> ""]
    ELSE LET t == j["type"] IN
    CASE t.g = "string" ->
           IF Parse(t.v).err # NoErr THEN [err |-> Parse(t.v).err, val |-> ""]
           ELSE Ok(Parse(t.v).val)
      [] t.g = enumType -> Ok(t.v)
      [] OTHER -> [err |-> <<"invalid", "type:", t.g>>, val |-> ""]

Type_Type(ty) == UnionType(ty, "TypeEnum", ParseTypeEnum)

Type_AsNamed(ty) ==
    LET t == Type_Type(ty) IN
    IF t.err # NoErr THEN Err(t.err)
    ELSE IF t.val # TypeNamed
    THEN Err(<<"invalid", "type;", "expected", TypeNamed, "got", t.val>>)
    ELSE Ok([Type |-> t.val, Name |-> getStringValueByKey(ty, "name")])

\* AsNullable handing out the innermost underlying type when a nullable
\* directly wraps a nullable.
Type_AsNullable_Collapsing(ty) ==
    LET t == Type_Type(ty) IN
    IF t.err # NoErr THEN Err(t.err)
    ELSE IF t.val # TypeNullable
    THEN Err(<<"invalid", "type;", "expected", TypeNullable, "got", t.val>>)
    ELSE IF "underlying_type" \notin DOMAIN ty
    THEN Err(<<"underlying_type", "is", "required">>)
    ELSE IF ty["underlying_type"].g # "Type"
    THEN Err(<<"underlying_type", "is", "not", "Type", "type">>)
    ELSE LET u == ty["underlying_type"].v IN
         IF Type_Type(u).err = NoErr /\ Type_Type(u).val = TypeNullable
            /\ "underlying_type" \in DOMAIN u
         THEN Ok([Type |-> t.val, UnderlyingType |-> u["underlying_type"].v])
         ELSE Ok([Type |-> t.val, UnderlyingType |-> u])

Type_AsNullable(ty) ==
    LET t == Type_Type(ty) IN
    IF t.err # NoErr THEN Err(t.err)
    ELSE IF t.val # TypeNullable
    THEN Err(<<"invalid", "type;", "expected", TypeNullable, "got", t.val>>)
    ELSE IF "underlying_type" \notin DOMAIN ty
    THEN Err(<<"underlying_type", "is", "required">>)
    ELSE IF ty["underlying_type"].g # "Type"
    THEN Err(<<"underlying_type", "is", "not", "Type", "type">>)
    ELSE Ok([Type |-> t.val, UnderlyingType |-> ty["underlying_type"].v])

Type_AsArray(ty) ==
    LET t == Type_Type(ty) IN
    IF t.err # NoErr THEN Err(t.err)
    ELSE IF t.val # TypeArray
    THEN Err(<<"invalid", "type;", "expected", TypeArray, "got", t.val>>)
    ELSE IF "element_type" \notin DOMAIN ty
    THEN Err(<<"element_type", "is", "required">>)
    ELSE IF ty["element_type"].g # "Type"
    THEN Err(<<"element_type", "is", "not", "Type", "type">>)
    ELSE Ok([Type |-> t.val, ElementType |-> ty["element_type"].v])

Type_Interface(ty) ==
    LET t == Type_Type(ty) IN
    IF t.err # NoErr THEN Err(t.err)
    ELSE CASE t.val = TypeNamed -> Type_AsNamed(ty)
           [] t.val = TypeNullable -> Type_AsNullable(ty)
           [] t.val = TypeArray -> Type_AsArray(ty)
           [] OTHER -> Err(<<"invalid", "type:", t.val>>)

NewNamedType(name) == [Type |-> TypeNamed, Name |-> name]

NamedType_Encode(ty) ==
    [type |-> GV("TypeEnum", ty.Type), name |-> GV("string", ty.Name)]

NullableType_Encode(ty) ==
    [type |-> GV("TypeEnum", ty.Type), underlying_type |-> GV("Type", ty.UnderlyingType)]

ArrayType_Encode(ty) ==
    [type |-> GV("TypeEnum", ty.Type), element_type |-> GV("Type", ty.ElementType)]

\* elementType.Encode() with elementType a TypeEncoder.
TypeEncoder_Encode(ty) ==
    CASE ty.Type = TypeNamed -> NamedType_Encode(ty)
      [] ty.Type = TypeNullable -> NullableType_Encode(ty)
      [] ty.Type = TypeArray -> ArrayType_Encode(ty)

NewArrayType(elementType) ==
    [Type |-> TypeArray, ElementType |-> TypeEncoder_Encode(elementType)]

NewNullableNamedType(name) ==
    [Type |-> TypeNullable, UnderlyingType |-> NamedType_Encode(NewNamedType(name))]

NewNullableArrayType(elementType) ==
    [Type |-> TypeNullable, UnderlyingType |-> TypeEncoder_Encode(elementType)]

----------------------------------------------------------------------------
(* Decoding into untyped and into plain struct targets *)

\* json.Unmarshal(b, &v) with v an any: the value in its Go default type.
RECURSIVE UnmarshalAny(_)
UnmarshalAny(b) ==
    CASE b.j = "null" -> Nil
      [] b.j = "string" -> GV("string", b.v)
      [] b.j = "number" -> GV("float64", b.v)
      [] b.j = "bool" -> GV("bool", b.v)
      [] b.j = "array" -> GV("[]interface{}", [i \in DOMAIN b.v |-> UnmarshalAny(b.v[i])])
      [] b.j = "object" -> GV("map[string]interface{}", [k \in DOMAIN b.v |-> UnmarshalAny(b.v[k])])
      [] OTHER -> GV("map[string]interface{}", <<>>)

\* json.Unmarshal(b, &raw) with raw a map[string]interface{}.
UnmarshalAnyMap(b) ==
    CASE b.j = "object" -> Ok([k \in DOMAIN b.v |-> UnmarshalAny(b.v[k])])
      [] b.j = "null" -> Ok(<<>>)
      [] OTHER -> Err(<<"json:", "cannot", "unmarshal", b.j, "into", "Go", "value", "of", "type", "map">>)

\* A required string member of a raw JSON map: absent, null or empty is
\* the error "required".
unmarshalStringFromJsonMap(collection, key, required) ==
    IF key \notin DOMAIN collection
    THEN (IF required THEN [err |-> <<"required">>, val |-> ""] ELSE Ok(""))
    ELSE LET result == UnmarshalString(collection[key]) IN
         IF result.err # NoErr THEN [err |-> result.err, val |-> ""]
         ELSE IF result.val = "" /\ required THEN [err |-> <<"required">>, val |-> ""]
         ELSE Ok(result.val)

\* json.Unmarshal(b, &p) with p a []PathElement; a path element is kept
\* as the name of the relationship it follows.
UnmarshalPath(b) ==
    CASE b.j = "null" -> Ok(<<>>)
      [] b.j = "array" /\ \A i \in DOMAIN b.v : b.v[i].j = "pathelement" ->
           Ok([i \in DOMAIN b.v |-> b.v[i].v])
      [] OTHER -> Err(<<"json:", "cannot", "unmarshal", b.j, "into", "Go", "value", "of", "type", "[]schema.PathElement">>)

MarshalPath(p) == JArr([i \in DOMAIN p |-> JV("pathelement", p[i])])

\* json.Unmarshal(b, &q) with q a Query; a query is kept as a token.
UnmarshalQuery(b) ==
    CASE b.j = "query" -> Ok(b.v)
      [] b.j = "null" -> Ok("")
      [] OTHER -> Err(<<"json:", "cannot", "unmarshal", b.j, "into", "Go", "value", "of", "type", "schema.Query">>)

----------------------------------------------------------------------------
(* Argument and RelationshipArgument *)

ArgumentTypeLiteral == "literal"
ArgumentTypeVariable == "variable"

ParseArgumentType(input) ==
    IF input # ArgumentTypeLiteral /\ input # ArgumentTypeVariable
    THEN Err(<<"failed", "to", "parse", "ArgumentType,", "expect", "one", "of",
               ArgumentTypeLiteral, ArgumentTypeVariable>>)
    ELSE Ok(input)

Argument_UnmarshalJSON(b) ==
    LET r == UnmarshalAnyMap(b) IN
    IF r.err # NoErr THEN Err(r.err)
    ELSE LET raw == r.val
             rawArgumentType == getStringValueByKey(raw, "type") IN
    IF rawArgumentType = "" THEN Err(<<"field", "type", "in", "Argument:", "required">>)
    ELSE LET argumentType == ParseArgumentType(rawArgumentType) IN
    IF argumentType.err # NoErr
    THEN Err(<<"field", "type", "in", "Argument:">> \o argumentType.err)
    ELSE LET arg == [Type |-> argumentType.val, Name |-> "", Value |-> Nil] IN
    CASE arg.Type = ArgumentTypeLiteral ->
           IF "value" \notin DOMAIN raw
           THEN Err(<<"field", "value", "in", "Argument", "is", "required", "for", "literal", "type">>)
           ELSE Ok([arg EXCEPT !.Value = raw["value"]])
      [] arg.Type = ArgumentTypeVariable ->
           LET name == getStringValueByKey(raw, "name") IN
           IF name = ""
           THEN Err(<<"field", "name", "in", "Argument", "is", "required", "for", "variable", "type">>)
           ELSE Ok([arg EXCEPT !.Name = name])

RelationshipArgumentTypeLiteral == "literal"
RelationshipArgumentTypeVariable == "variable"
RelationshipArgumentTypeColumn == "column"

ParseRelationshipArgumentType(input) ==
    IF /\ input # RelationshipArgumentTypeLiteral
       /\ input # RelationshipArgumentTypeVariable
       /\ input # RelationshipArgumentTypeColumn
    THEN Err(<<"failed", "to", "parse", "ArgumentType,", "expect", "one", "of",
               RelationshipArgumentTypeLiteral, RelationshipArgumentTypeVariable,
               RelationshipArgumentTypeColumn>>)
    ELSE Ok(input)

RelationshipArgument_UnmarshalJSON(b) ==
    LET r == UnmarshalAnyMap(b) IN
    IF r.err # NoErr THEN Err(r.err)
    ELSE LET raw == r.val
             rawArgumentType == getStringValueByKey(raw, "type") IN
    IF rawArgumentType = "" THEN Err(<<"field", "type", "in", "Argument:", "required">>)
    ELSE LET argumentType == ParseRelationshipArgumentType(rawArgumentType) IN
    IF argumentType.err # NoErr
    THEN Err(<<"field", "type", "in", "Argument:">> \o argumentType.err)
    ELSE LET arg == [Type |-> argumentType.val, Name |-> "", Value |-> Nil] IN
    CASE arg.Type = RelationshipArgumentTypeLiteral ->
           IF "value" \notin DOMAIN raw
           THEN Err(<<"field", "value", "in", "Argument", "is", "required", "for", "literal", "type">>)
           ELSE Ok([arg EXCEPT !.Value = raw["value"]])
      [] OTHER ->
           LET name == getStringValueByKey(raw, "name") IN
           IF name = ""
           THEN Err(<<"field", "name", "in", "Argument", "is", "required", "for", rawArgumentType, "type">>)
           ELSE Ok([arg EXCEPT !.Name = name])

\* json.Unmarshal(b, &arguments) with arguments a
\* map[string]RelationshipArgument: every member is decoded, the first
\* failure fails the whole map.
UnmarshalRelationshipArguments(b) ==
    CASE b.j = "null" -> Ok(<<>>)
      [] b.j = "object" ->
           AllOf([k \in DOMAIN b.v |-> RelationshipArgument_UnmarshalJSON(b.v[k])])
      [] OTHER -> Err(<<"json:", "cannot", "unmarshal", b.j, "into", "Go", "value", "of", "type", "map">>)

----------------------------------------------------------------------------
(* ComparisonTarget and the comparison operators *)

ComparisonTargetTypeColumn == "column"
ComparisonTargetTypeRootCollectionColumn == "root_collection_column"

ParseComparisonTargetType(input) ==
    IF input # ComparisonTargetTypeColumn /\ input # ComparisonTargetTypeRootCollectionColumn
    THEN Err(<<"failed", "to", "parse", "ComparisonTargetType,", "expect", "one", "of",
               ComparisonTargetTypeColumn, ComparisonTargetTypeRootCollectionColumn>>)
    ELSE Ok(input)

ComparisonTargetType_UnmarshalJSON(b) ==
    LET rawValue == UnmarshalString(b) IN
    IF rawValue.err # NoErr THEN Err(rawValue.err)
    ELSE ParseComparisonTargetType(rawValue.val)

\* json.Unmarshal(b, &column) with column a ComparisonTarget: the struct
\* decoding of encoding/json over the members type, name and path; a
\* member that is absent leaves its field zero.
ComparisonTarget_Unmarshal(b) ==
    CASE b.j = "null" -> Ok([Type |-> "", Name |-> "", Path |-> <<>>])
      [] b.j = "object" ->
           LET ty == IF "type" \in DOMAIN b.v
                     THEN ComparisonTargetType_UnmarshalJSON(b.v["type"]) ELSE Ok("")
               name == IF "name" \in DOMAIN b.v THEN UnmarshalString(b.v["name"]) ELSE Ok("")
               path == IF "path" \in DOMAIN b.v THEN UnmarshalPath(b.v["path"]) ELSE Ok(<<>>)
               e == FirstErr(<<ty, name, path>>) IN
           IF e # NoErr THEN Err(e)
           ELSE Ok([Type |-> ty.val, Name |-> name.val, Path |-> path.val])
      [] OTHER -> Err(<<"json:", "cannot", "unmarshal", b.j, "into", "Go", "value", "of", "type", "schema.ComparisonTarget">>)

\* json.Marshal of a ComparisonTarget: path carries omitempty.
ComparisonTarget_Marshal(t) ==
    JObj([type |-> JStr(t.Type), name |-> JStr(t.Name)]
         @@ (IF Len(t.Path) > 0 THEN [path |-> MarshalPath(t.Path)] ELSE <<>>))

BinaryComparisonOperatorTypeEqual == "equal"
BinaryComparisonOperatorTypeOther == "other"

enumValues_BinaryComparisonOperatorType ==
    <<BinaryComparisonOperatorTypeEqual, BinaryComparisonOperatorTypeOther>>

ParseBinaryComparisonOperatorType(input) ==
    IF ~Contains(enumValues_BinaryComparisonOperatorType, input)
    THEN Err(<<"failed", "to", "parse", "BinaryComparisonOperatorType,", "expect", "one", "of">>
             \o enumValues_BinaryComparisonOperatorType)
    ELSE Ok(input)

BinaryComparisonOperatorType_UnmarshalJSON(b) ==
    LET rawValue == UnmarshalString(b) IN
    IF rawValue.err # NoErr THEN Err(rawValue.err)
    ELSE ParseBinaryComparisonOperatorType(rawValue.val)

\* json.Unmarshal(b, &operator) with operator a BinaryComparisonOperator.
BinaryComparisonOperator_Unmarshal(b) ==
    CASE b.j = "null" -> Ok([Type |-> "", Name |-> ""])
      [] b.j = "object" ->
           LET ty == IF "type" \in DOMAIN b.v
                     THEN BinaryComparisonOperatorType_UnmarshalJSON(b.v["type"]) ELSE Ok("")
               name == IF "name" \in DOMAIN b.v THEN UnmarshalString(b.v["name"]) ELSE Ok("")
               e == FirstErr(<<ty, name>>) IN
           IF e # NoErr THEN Err(e) ELSE Ok([Type |-> ty.val, Name |-> name.val])
      [] OTHER -> Err(<<"json:", "cannot", "unmarshal", b.j, "into", "Go", "value", "of", "type", "schema.BinaryComparisonOperator">>)

\* json.Marshal of a BinaryComparisonOperator: name carries omitempty.
BinaryComparisonOperator_Marshal(o) ==
    JObj([type |-> JStr(o.Type)] @@ (IF o.Name # "" THEN [name |-> JStr(o.Name)] ELSE <<>>))

\* The unary and the binary array operators are string enums with one
\* member each.
UnaryComparisonOperatorIsNull == "is_null"
BinaryArrayComparisonOperatorIn == "in"

UnaryComparisonOperator_UnmarshalJSON(b) ==
    LET rawValue == UnmarshalString(b) IN
    IF rawValue.err # NoErr THEN Err(rawValue.err)
    ELSE IF rawValue.val # UnaryComparisonOperatorIsNull
    THEN Err(<<"failed", "to", "parse", "UnaryComparisonOperator">>)
    ELSE Ok(rawValue.val)

BinaryArrayComparisonOperator_UnmarshalJSON(b) ==
    LET rawValue == UnmarshalString(b) IN
    IF rawValue.err # NoErr THEN Err(rawValue.err)
    ELSE IF rawValue.val # BinaryArrayComparisonOperatorIn
    THEN Err(<<"failed", "to", "parse", "BinaryArrayComparisonOperator">>)
    ELSE Ok(rawValue.val)

----------------------------------------------------------------------------
(* ComparisonValue *)

ComparisonValueTypeColumn == "column"
ComparisonValueTypeScalar == "scalar"
ComparisonValueTypeVariable == "variable"

enumValues_ComparisonValueType ==
    <<ComparisonValueTypeColumn, ComparisonValueTypeScalar, ComparisonValueTypeVariable>>

ParseComparisonValueType(input) ==
    IF ~Contains(enumValues_ComparisonValueType, input)
    THEN Err(<<"failed", "to", "parse", "ComparisonValueType,", "expect", "one", "of">>
             \o enumValues_ComparisonValueType)
    ELSE Ok(input)

ComparisonValueType_UnmarshalJSON(b) ==
    LET rawValue == UnmarshalString(b) IN
    IF rawValue.err # NoErr THEN Err(rawValue.err)
    ELSE ParseComparisonValueType(rawValue.val)

ComparisonValue_UnmarshalJSON(b) ==
    LET r == UnmarshalRawMap(b) IN
    IF r.err # NoErr THEN Err(r.err)
    ELSE LET raw == r.val IN
    IF "type" \notin DOMAIN raw
    THEN Err(<<"field", "type", "in", "ComparisonValue:", "required">>)
    ELSE LET ty == ComparisonValueType_UnmarshalJSON(raw["type"]) IN
    IF ty.err # NoErr THEN Err(<<"field", "type", "in", "ComparisonValue:">> \o ty.err)
    ELSE LET result == [type |-> GV("ComparisonValueType", ty.val)] IN
    CASE ty.val = ComparisonValueTypeVariable ->
           IF "name" \notin DOMAIN raw
           THEN Err(<<"field", "name", "in", "ComparisonValue", "is", "required", "for", "variable", "type">>)
           ELSE LET name == UnmarshalString(raw["name"]) IN
                IF name.err # NoErr THEN Err(<<"field", "name", "in", "ComparisonValue:">> \o name.err)
                ELSE Ok(result @@ [name |-> GV("string", name.val)])
      [] ty.val = ComparisonValueTypeColumn ->
           IF "column" \notin DOMAIN raw
           THEN Err(<<"field", "column", "in", "ComparisonValue", "is", "required", "for", "column", "type">>)
           ELSE LET column == ComparisonTarget_Unmarshal(raw["column"]) IN
                IF column.err # NoErr THEN Err(<<"field", "column", "in", "ComparisonValue:">> \o column.err)
                ELSE Ok(result @@ [column |-> GV("ComparisonTarget", column.val)])
      [] ty.val = ComparisonValueTypeScalar ->
           IF "value" \notin DOMAIN raw
           THEN Err(<<"field", "value", "in", "Type", "is", "required", "for", "scalar", "type">>)
           ELSE Ok(result @@ [value |-> UnmarshalAny(raw["value"])])
      [] OTHER -> Ok(result)

ComparisonValue_Type(cv) == UnionType(cv, "ComparisonValueType", ParseComparisonValueType)

ComparisonValue_AsScalar(cv) ==
    LET ty == ComparisonValue_Type(cv) IN
    IF ty.err # NoErr THEN Err(ty.err)
    ELSE IF ty.val # ComparisonValueTypeScalar
    THEN Err(<<"invalid", "type;", "expected", ComparisonValueTypeScalar, "got", ty.val>>)
    ELSE IF "value" \notin DOMAIN cv
    THEN Err(<<"ComparisonValueScalar.value", "is", "required">>)
    ELSE Ok([Type |-> ty.val, Value |-> cv["value"]])

ComparisonValue_AsColumn(cv) ==
    LET ty == ComparisonValue_Type(cv) IN
    IF ty.err # NoErr THEN Err(ty.err)
    ELSE IF ty.val # ComparisonValueTypeColumn
    THEN Err(<<"invalid", "type;", "expected", ComparisonValueTypeColumn, "got", ty.val>>)
    ELSE IF "column" \notin DOMAIN cv
    THEN Err(<<"ComparisonValueColumn.column", "is", "required">>)
    ELSE IF cv["column"].g # "ComparisonTarget"
    THEN Err(<<"invalid", "ComparisonValueColumn.column;", "expected", "ComparisonTarget">>)
    ELSE Ok([Type |-> ty.val, Column |-> cv["column"].v])

ComparisonValue_AsVariable(cv) ==
    LET ty == ComparisonValue_Type(cv) IN
    IF ty.err # NoErr THEN Err(ty.err)
    ELSE IF ty.val # ComparisonValueTypeVariable
    THEN Err(<<"invalid", "type;", "expected", ComparisonValueTypeVariable, "got", ty.val>>)
    ELSE LET name == getStringValueByKey(cv, "name") IN
    IF name = "" THEN Err(<<"ComparisonValueVariable.name", "is", "required">>)
    ELSE Ok([Type |-> ty.val, Name |-> name])

ComparisonValue_Interface(cv) ==
    LET ty == ComparisonValue_Type(cv) IN
    IF ty.err # NoErr THEN Err(ty.err)
    ELSE CASE ty.val = ComparisonValueTypeColumn -> ComparisonValue_AsColumn(cv)
           [] ty.val = ComparisonValueTypeVariable -> ComparisonValue_AsVariable(cv)
           [] ty.val = ComparisonValueTypeScalar -> ComparisonValue_AsScalar(cv)
           [] OTHER -> Err(<<"invalid", "type:", ty.val>>)

ComparisonValueColumn_Encode(cv) ==
    [type |-> GV("ComparisonValueType", cv.Type), column |-> GV("ComparisonTarget", cv.Column)]

ComparisonValueScalar_Encode(cv) ==
    [type |-> GV("ComparisonValueType", cv.Type), value |-> cv.Value]

ComparisonValueVariable_Encode(cv) ==
    [type |-> GV("ComparisonValueType", cv.Type), name |-> GV("string", cv.Name)]

----------------------------------------------------------------------------
(* ExistsInCollection *)

ExistsInCollectionTypeRelated == "related"
ExistsInCollectionTypeUnrelated == "unrelated"

enumValues_ExistsInCollectionType ==
    <<ExistsInCollectionTypeRelated, ExistsInCollectionTypeUnrelated>>

ParseExistsInCollectionType(input) ==
    IF ~Contains(enumValues_ExistsInCollectionType, input)
    THEN Err(<<"failed", "to", "parse", "ExistsInCollectionType,", "expect", "one", "of">>
             \o enumValues_ExistsInCollectionType)
    ELSE Ok(input)

ExistsInCollectionType_UnmarshalJSON(b) ==
    LET rawValue == UnmarshalString(b) IN
    IF rawValue.err # NoErr THEN Err(rawValue.err)
    ELSE ParseExistsInCollectionType(rawValue.val)

\* UnmarshalJSON taking absent arguments of an unrelated collection for no
\* arguments.
ExistsInCollection_UnmarshalJSON_NoArguments(b) ==
    LET r == UnmarshalRawMap(b) IN
    IF r.err # NoErr THEN Err(r.err)
    ELSE LET raw == r.val IN
    IF "type" \notin DOMAIN raw
    THEN Err(<<"field", "type", "in", "ExistsInCollection:", "required">>)
    ELSE LET ty == ExistsInCollectionType_UnmarshalJSON(raw["type"]) IN
    IF ty.err # NoErr THEN Err(<<"field", "type", "in", "ExistsInCollection:">> \o ty.err)
    ELSE LET result == [type |-> GV("ExistsInCollectionType", ty.val)] IN
    CASE ty.val = ExistsInCollectionTypeRelated ->
           IF "relationship" \notin DOMAIN raw
           THEN Err(<<"field", "relationship", "in", "ExistsInCollection", "is", "required", "for", "related", "type">>)
           ELSE LET relationship == UnmarshalString(raw["relationship"]) IN
           IF relationship.err # NoErr
           THEN Err(<<"field", "name", "in", "ExistsInCollection:">> \o relationship.err)
           ELSE IF "arguments" \notin DOMAIN raw
           THEN Err(<<"field", "arguments", "in", "ExistsInCollection", "is", "required", "for", "related", "type">>)
           ELSE LET arguments == UnmarshalRelationshipArguments(raw["arguments"]) IN
           IF arguments.err # NoErr
           THEN Err(<<"field", "arguments", "in", "ExistsInCollection:">> \o arguments.err)
           ELSE Ok(result @@ [relationship |-> GV("string", relationship.val),
                              arguments |-> GV("map[string]RelationshipArgument", arguments.val)])
      [] ty.val = ExistsInCollectionTypeUnrelated ->
           IF "collection" \notin DOMAIN raw
           THEN Err(<<"field", "collection", "in", "ExistsInCollection", "is", "required", "for", "unrelated", "type">>)
           ELSE LET collection == UnmarshalString(raw["collection"]) IN
           IF collection.err # NoErr
           THEN Err(<<"field", "collection", "in", "ExistsInCollection:">> \o collection.err)
           ELSE LET arguments == IF "arguments" \in DOMAIN raw
                                 THEN UnmarshalRelationshipArguments(raw["arguments"])
                                 ELSE Ok(<<>>) IN
           IF arguments.err # NoErr
           THEN Err(<<"field", "arguments", "in", "ExistsInCollection:">> \o arguments.err)
           ELSE Ok(result @@ [collection |-> GV("string", collection.val),
                              arguments |-> GV("map[string]RelationshipArgument", arguments.val)])
      [] OTHER -> Ok(result)

ExistsInCollection_UnmarshalJSON(b) ==
    LET r == UnmarshalRawMap(b) IN
    IF r.err # NoErr THEN Err(r.err)
    ELSE LET raw == r.val IN
    IF "type" \notin DOMAIN raw
    THEN Err(<<"field", "type", "in", "ExistsInCollection:", "required">>)
    ELSE LET ty == ExistsInCollectionType_UnmarshalJSON(raw["type"]) IN
    IF ty.err # NoErr THEN Err(<<"field", "type", "in", "ExistsInCollection:">> \o ty.err)
    ELSE LET result == [type |-> GV("ExistsInCollectionType", ty.val)] IN
    CASE ty.val = ExistsInCollectionTypeRelated ->
           IF "relationship" \notin DOMAIN raw
           THEN Err(<<"field", "relationship", "in", "ExistsInCollection", "is", "required", "for", "related", "type">>)
           ELSE LET relationship == UnmarshalString(raw["relationship"]) IN
           IF relationship.err # NoErr
           THEN Err(<<"field", "name", "in", "ExistsInCollection:">> \o relationship.err)
           ELSE IF "arguments" \notin DOMAIN raw
           THEN Err(<<"field", "arguments", "in", "ExistsInCollection", "is", "required", "for", "related", "type">>)
           ELSE LET arguments == UnmarshalRelationshipArguments(raw["arguments"]) IN
           IF arguments.err # NoErr
           THEN Err(<<"field", "arguments", "in", "ExistsInCollection:">> \o arguments.err)
           ELSE Ok(result @@ [relationship |-> GV("string", relationship.val),
                              arguments |-> GV("map[string]RelationshipArgument", arguments.val)])
      [] ty.val = ExistsInCollectionTypeUnrelated ->
           IF "collection" \notin DOMAIN raw
           THEN Err(<<"field", "collection", "in", "ExistsInCollection", "is", "required", "for", "unrelated", "type">>)
           ELSE LET collection == UnmarshalString(raw["collection"]) IN
           IF collection.err # NoErr
           THEN Err(<<"field", "collection", "in", "ExistsInCollection:">> \o collection.err)
           ELSE IF "arguments" \notin DOMAIN raw
           THEN Err(<<"field", "arguments", "in", "ExistsInCollection", "is", "required", "for", "unrelated", "type">>)
           ELSE LET arguments == UnmarshalRelationshipArguments(raw["arguments"]) IN
           IF arguments.err # NoErr
           THEN Err(<<"field", "arguments", "in", "ExistsInCollection:">> \o arguments.err)
           ELSE Ok(result @@ [collection |-> GV("string", collection.val),
                              arguments |-> GV("map[string]RelationshipArgument", arguments.val)])
      [] OTHER -> Ok(result)

ExistsInCollection_Type(j) ==
    UnionType(j, "ExistsInCollectionType", ParseExistsInCollectionType)

ExistsInCollection_AsRelated(j) ==
    LET t == ExistsInCollection_Type(j) IN
    IF t.err # NoErr THEN Err(t.err)
    ELSE IF t.val # ExistsInCollectionTypeRelated
    THEN Err(<<"invalid", "type;", "expected:", ExistsInCollectionTypeRelated, "got:", t.val>>)
    ELSE LET relationship == getStringValueByKey(j, "relationship") IN
    IF relationship = "" THEN Err(<<"ExistsInCollectionRelated.relationship", "is", "required">>)
    ELSE IF "arguments" \notin DOMAIN j
    THEN Err(<<"ExistsInCollectionRelated.arguments", "is", "required">>)
    ELSE IF j["arguments"].g # "map[string]RelationshipArgument"
    THEN Err(<<"invalid", "ExistsInCollectionRelated.arguments", "type">>)
    ELSE Ok([Type |-> t.val, Relationship |-> relationship, Arguments |-> j["arguments"].v])

ExistsInCollection_AsUnrelated(j) ==
    LET t == ExistsInCollection_Type(j) IN
    IF t.err # NoErr THEN Err(t.err)
    ELSE IF t.val # ExistsInCollectionTypeUnrelated
    THEN Err(<<"invalid", "type;", "expected:", ExistsInCollectionTypeUnrelated, "got:", t.val>>)
    ELSE LET collection == getStringValueByKey(j, "collection") IN
    IF collection = "" THEN Err(<<"ExistsInCollectionUnrelated.collection", "is", "required">>)
    ELSE IF "arguments" \notin DOMAIN j
    THEN Err(<<"ExistsInCollectionUnrelated.arguments", "is", "required">>)
    ELSE IF j["arguments"].g # "map[string]RelationshipArgument"
    THEN Err(<<"invalid", "ExistsInCollectionUnrelated.arguments", "type">>)
    ELSE Ok([Type |-> t.val, Collection |-> collection, Arguments |-> j["arguments"].v])

ExistsInCollection_Interface(j) ==
    LET t == ExistsInCollection_Type(j) IN
    IF t.err # NoErr THEN Err(t.err)
    ELSE CASE t.val = ExistsInCollectionTypeRelated -> ExistsInCollection_AsRelated(j)
           [] t.val = ExistsInCollectionTypeUnrelated -> ExistsInCollection_AsUnrelated(j)
           [] OTHER -> Err(<<"invalid", "type:", t.val>>)

ExistsInCollectionRelated_Encode(ei) ==
    [type |-> GV("ExistsInCollectionType", ei.Type),
     relationship |-> GV("string", ei.Relationship),
     arguments |-> GV("map[string]RelationshipArgument", ei.Arguments)]

ExistsInCollectionUnrelated_Encode(ei) ==
    [type |-> GV("ExistsInCollectionType", ei.Type),
     collection |-> GV("string", ei.Collection),
     arguments |-> GV("map[string]RelationshipArgument", ei.Arguments)]

----------------------------------------------------------------------------
(* Field *)

FieldTypeColumn == "column"
FieldTypeRelationship == "relationship"

ParseFieldType(input) ==
    IF input # FieldTypeColumn /\ input # FieldTypeRelationship
    THEN Err(<<"failed", "to", "parse", "FieldType,", "expect", "one", "of",
               FieldTypeColumn, FieldTypeRelationship>>)
    ELSE Ok(input)

FieldType_UnmarshalJSON(b) ==
    LET rawValue == UnmarshalString(b) IN
    IF rawValue.err # NoErr THEN Err(rawValue.err)
    ELSE ParseFieldType(rawValue.val)

\* UnmarshalJSON keeping the members of a column field it does not know.
Field_UnmarshalJSON_KeepingMembers(b) ==
    LET r == UnmarshalRawMap(b) IN
    IF r.err # NoErr THEN Err(r.err)
    ELSE LET raw == r.val IN
    IF "type" \notin DOMAIN raw THEN Err(<<"field", "type", "in", "Field:", "required">>)
    ELSE LET fieldType == FieldType_UnmarshalJSON(raw["type"]) IN
    IF fieldType.err # NoErr THEN Err(<<"field", "type", "in", "Field:">> \o fieldType.err)
    ELSE LET results == [type |-> GV("FieldType", fieldType.val)] IN
    CASE fieldType.val = FieldTypeColumn ->
           LET column == unmarshalStringFromJsonMap(raw, "column", TRUE) IN
           IF column.err # NoErr THEN Err(<<"field", "column", "in", "Field:">> \o column.err)
           ELSE Ok(results @@ [column |-> GV("string", column.val)]
                   @@ [k \in DOMAIN raw \ {"type", "column"} |-> UnmarshalAny(raw[k])])
      [] fieldType.val = FieldTypeRelationship ->
           LET relationship == unmarshalStringFromJsonMap(raw, "relationship", TRUE) IN
           IF relationship.err # NoErr
           THEN Err(<<"field", "relationship", "in", "Field:">> \o relationship.err)
           ELSE IF "query" \notin DOMAIN raw THEN Err(<<"field", "query", "in", "Field:", "required">>)
           ELSE LET query == UnmarshalQuery(raw["query"]) IN
           IF query.err # NoErr THEN Err(<<"field", "query", "in", "Field:">> \o query.err)
           ELSE IF "arguments" \notin DOMAIN raw
           THEN Err(<<"field", "arguments", "in", "Field:", "required">>)
           ELSE LET arguments == UnmarshalRelationshipArguments(raw["arguments"]) IN
           IF arguments.err # NoErr THEN Err(<<"field", "arguments", "in", "Field:">> \o arguments.err)
           ELSE Ok(results @@ [relationship |-> GV("string", relationship.val),
                               query |-> GV("Query", query.val),
                               arguments |-> GV("map[string]RelationshipArgument", arguments.val)])
      [] OTHER -> Ok(results)

Field_UnmarshalJSON(b) ==
    LET r == UnmarshalRawMap(b) IN
    IF r.err # NoErr THEN Err(r.err)
    ELSE LET raw == r.val IN
    IF "type" \notin DOMAIN raw THEN Err(<<"field", "type", "in", "Field:", "required">>)
    ELSE LET fieldType == FieldType_UnmarshalJSON(raw["type"]) IN
    IF fieldType.err # NoErr THEN Err(<<"field", "type", "in", "Field:">> \o fieldType.err)
    ELSE LET results == [type |-> GV("FieldType", fieldType.val)] IN
    CASE fieldType.val = FieldTypeColumn ->
           LET column == unmarshalStringFromJsonMap(raw, "column", TRUE) IN
           IF column.err # NoErr THEN Err(<<"field", "column", "in", "Field:">> \o column.err)
           ELSE Ok(results @@ [column |-> GV("string", column.val)])
      [] fieldType.val = FieldTypeRelationship ->
           LET relationship == unmarshalStringFromJsonMap(raw, "relationship", TRUE) IN
           IF relationship.err # NoErr
           THEN Err(<<"field", "relationship", "in", "Field:">> \o relationship.err)
           ELSE IF "query" \notin DOMAIN raw THEN Err(<<"field", "query", "in", "Field:", "required">>)
           ELSE LET query == UnmarshalQuery(raw["query"]) IN
           IF query.err # NoErr THEN Err(<<"field", "query", "in", "Field:">> \o query.err)
           ELSE IF "arguments" \notin DOMAIN raw
           THEN Err(<<"field", "arguments", "in", "Field:", "required">>)
           ELSE LET arguments == UnmarshalRelationshipArguments(raw["arguments"]) IN
           IF arguments.err # NoErr THEN Err(<<"field", "arguments", "in", "Field:">> \o arguments.err)
           ELSE Ok(results @@ [relationship |-> GV("string", relationship.val),
                               query |-> GV("Query", query.val),
                               arguments |-> GV("map[string]RelationshipArgument", arguments.val)])
      [] OTHER -> Ok(results)

Field_Type(j) == UnionType(j, "FieldType", ParseFieldType)

Field_AsColumn(j) ==
    LET t == Field_Type(j) IN
    IF t.err # NoErr THEN Err(t.err)
    ELSE IF t.val # FieldTypeColumn
    THEN Err(<<"invalid", "type;", "expected", FieldTypeColumn, "got", t.val>>)
    ELSE LET column == getStringValueByKey(j, "column") IN
    IF column = "" THEN Err(<<"ColumnField.column", "is", "required">>)
    ELSE Ok([Type |-> t.val, Column |-> column])

Field_AsRelationship(j) ==
    LET t == Field_Type(j) IN
    IF t.err # NoErr THEN Err(t.err)
    ELSE IF t.val # FieldTypeRelationship
    THEN Err(<<"invalid", "type;", "expected", FieldTypeRelationship, "got", t.val>>)
    ELSE LET relationship == getStringValueByKey(j, "relationship") IN
    IF relationship = "" THEN Err(<<"RelationshipField.relationship", "is", "required">>)
    ELSE IF "query" \notin DOMAIN j THEN Err(<<"RelationshipField.query", "is", "required">>)
    ELSE IF j["query"].g # "Query"
    THEN Err(<<"invalid", "RelationshipField.query", "type;", "expected", "Query">>)
    ELSE IF "arguments" \notin DOMAIN j THEN Err(<<"RelationshipField.arguments", "is", "required">>)
    ELSE IF j["arguments"].g # "map[string]RelationshipArgument"
    THEN Err(<<"invalid", "RelationshipField.arguments", "type">>)
    ELSE Ok([Type |-> t.val, Query |-> j["query"].v, Relationship |-> relationship,
             Arguments |-> j["arguments"].v])

Field_Interface(j) ==
    LET ty == Field_Type(j) IN
    IF ty.err # NoErr THEN Err(ty.err)
    ELSE CASE ty.val = FieldTypeColumn -> Field_AsColumn(j)
           [] ty.val = FieldTypeRelationship -> Field_AsRelationship(j)
           [] OTHER -> Err(<<"invalid", "type:", ty.val>>)

ColumnField_Encode(f) ==
    [type |-> GV("FieldType", f.Type), column |-> GV("string", f.Column)]

RelationshipField_Encode(f) ==
    [type |-> GV("FieldType", f.Type),
     query |-> GV("Query", f.Query),
     relationship |-> GV("string", f.Relationship),
     arguments |-> GV("map[string]RelationshipArgument", f.Arguments)]

----------------------------------------------------------------------------
(* MutationOperation *)

MutationOperationProcedure == "procedure"

ParseMutationOperationType(input) ==
    IF input # MutationOperationProcedure
    THEN Err(<<"failed", "to", "parse", "MutationOperationType,", "expect", "one", "of",
               MutationOperationProcedure>>)
    ELSE Ok(input)

MutationOperationType_UnmarshalJSON(b) ==
    LET rawValue == UnmarshalString(b) IN
    IF rawValue.err # NoErr THEN Err(rawValue.err)
    ELSE ParseMutationOperationType(rawValue.val)

\* json.Unmarshal(b, &fields) with fields a map[string]Field.
UnmarshalFields(b) ==
    CASE b.j = "null" -> Ok(<<>>)
      [] b.j = "object" -> AllOf([k \in DOMAIN b.v |-> Field_UnmarshalJSON(b.v[k])])
      [] OTHER -> Err(<<"json:", "cannot", "unmarshal", b.j, "into", "Go", "value", "of", "type", "map">>)

MutationOperation_UnmarshalJSON(b) ==
    LET r == UnmarshalRawMap(b) IN
    IF r.err # NoErr THEN Err(r.err)
    ELSE LET raw == r.val IN
    IF "type" \notin DOMAIN raw
    THEN Err(<<"field", "type", "in", "MutationOperation:", "required">>)
    ELSE LET operationType == MutationOperationType_UnmarshalJSON(raw["type"]) IN
    IF operationType.err # NoErr
    THEN Err(<<"field", "type", "in", "MutationOperation:">> \o operationType.err)
    ELSE LET value == [Type |-> operationType.val, Name |-> "", Arguments |-> JNull, Fields |-> <<>>] IN
    CASE value.Type = MutationOperationProcedure ->
           LET name == unmarshalStringFromJsonMap(raw, "name", TRUE) IN
           IF name.err # NoErr THEN Err(<<"field", "name", "in", "MutationOperation:">> \o name.err)
           ELSE IF "arguments" \notin DOMAIN raw
           THEN Err(<<"field", "arguments", "in", "MutationOperation:", "required">>)
           ELSE LET fields == IF "fields" \in DOMAIN raw
                              THEN UnmarshalFields(raw["fields"]) ELSE Ok(<<>>) IN
           IF fields.err # NoErr
           THEN Err(<<"field", "fields", "in", "MutationOperation:">> \o fields.err)
           ELSE Ok([value EXCEPT !.Name = name.val, !.Arguments = raw["arguments"],
                                 !.Fields = fields.val])
      [] OTHER -> Ok(value)

----------------------------------------------------------------------------
(* Expression *)

ExpressionTypeAnd == "and"
ExpressionTypeOr == "or"
ExpressionTypeNot == "not"
ExpressionTypeUnaryComparisonOperator == "unary_comparison_operator"
ExpressionTypeBinaryComparisonOperator == "binary_comparison_operator"
ExpressionTypeBinaryArrayComparisonOperator == "binary_array_comparison_operator"
ExpressionTypeExists == "exists"

enumValues_ExpressionType ==
    <<ExpressionTypeAnd, ExpressionTypeOr, ExpressionTypeNot,
      ExpressionTypeUnaryComparisonOperator, ExpressionTypeBinaryComparisonOperator,
      ExpressionTypeBinaryArrayComparisonOperator, ExpressionTypeExists>>

ParseExpressionType(input) ==
    IF ~Contains(enumValues_ExpressionType, input)
    THEN Err(<<"failed", "to", "parse", "ExpressionType,", "expect", "one", "of">>
             \o enumValues_ExpressionType)
    ELSE Ok(input)

ExpressionType_UnmarshalJSON(b) ==
    LET rawValue == UnmarshalString(b) IN
    IF rawValue.err # NoErr THEN Err(rawValue.err)
    ELSE ParseExpressionType(rawValue.val)

\* json.Unmarshal(b, &values) with values a []ComparisonValue: the
\* elements are decoded in the order of the array.
UnmarshalComparisonValues(b) ==
    CASE b.j = "null" -> Ok(<<>>)
      [] b.j = "array" ->
           EachOf([i \in DOMAIN b.v |-> ComparisonValue_UnmarshalJSON(b.v[i])])
      [] OTHER -> Err(<<"json:", "cannot", "unmarshal", b.j, "into", "Go", "value", "of", "type", "[]schema.ComparisonValue">>)

RECURSIVE Expression_UnmarshalJSON(_)
\* json.Unmarshal(b, &expressions) with expressions a []Expression.
UnmarshalExpressions(b) ==
    CASE b.j = "null" -> Ok(<<>>)
      [] b.j = "array" ->
           EachOf([i \in DOMAIN b.v |-> Expression_UnmarshalJSON(b.v[i])])
      [] OTHER -> Err(<<"json:", "cannot", "unmarshal", b.j, "into", "Go", "value", "of", "type", "[]schema.Expression">>)

Expression_UnmarshalJSON(b) ==
    LET r == UnmarshalRawMap(b) IN
    IF r.err # NoErr THEN Err(r.err)
    ELSE LET raw == r.val IN
    IF "type" \notin DOMAIN raw
    THEN Err(<<"field", "type", "in", "Expression:", "required">>)
    ELSE LET ty == ExpressionType_UnmarshalJSON(raw["type"]) IN
    IF ty.err # NoErr THEN Err(<<"field", "type", "in", "Expression:">> \o ty.err)
    ELSE LET result == [type |-> GV("ExpressionType", ty.val)]
             required(key) == <<"field", key, "in", "Expression", "is", "required", "for", ty.val, "type">>
             column == IF "column" \in DOMAIN raw
                       THEN ComparisonTarget_Unmarshal(raw["column"]) ELSE Err(NoErr) IN
    CASE ty.val \in {ExpressionTypeAnd, ExpressionTypeOr} ->
           IF "expressions" \notin DOMAIN raw THEN Err(required("expressions"))
           ELSE LET expressions == UnmarshalExpressions(raw["expressions"]) IN
           IF expressions.err # NoErr
           THEN Err(<<"field", "expressions", "in", "Expression:">> \o expressions.err)
           ELSE Ok(result @@ [expressions |-> GV("[]Expression", expressions.val)])
      [] ty.val = ExpressionTypeNot ->
           IF "expression" \notin DOMAIN raw THEN Err(required("expressions"))
           ELSE LET expression == Expression_UnmarshalJSON(raw["expression"]) IN
           IF expression.err # NoErr
           THEN Err(<<"field", "expression", "in", "Expression:">> \o expression.err)
           ELSE Ok(result @@ [expression |-> GV("Expression", expression.val)])
      [] ty.val = ExpressionTypeUnaryComparisonOperator ->
           IF "operator" \notin DOMAIN raw THEN Err(required("operator"))
           ELSE LET operator == UnaryComparisonOperator_UnmarshalJSON(raw["operator"]) IN
           IF operator.err # NoErr
           THEN Err(<<"field", "operator", "in", "Expression:">> \o operator.err)
           ELSE IF "column" \notin DOMAIN raw THEN Err(required("column"))
           ELSE IF column.err # NoErr
           THEN Err(<<"field", "column", "in", "Expression:">> \o column.err)
           ELSE Ok(result @@ [operator |-> GV("UnaryComparisonOperator", operator.val),
                              column |-> GV("ComparisonTarget", column.val)])
      [] ty.val = ExpressionTypeBinaryComparisonOperator ->
           IF "operator" \notin DOMAIN raw THEN Err(required("operator"))
           ELSE LET operator == BinaryComparisonOperator_Unmarshal(raw["operator"]) IN
           IF operator.err # NoErr
           THEN Err(<<"field", "operator", "in", "Expression:">> \o operator.err)
           ELSE IF "column" \notin DOMAIN raw THEN Err(required("column"))
           ELSE IF column.err # NoErr
           THEN Err(<<"field", "column", "in", "Expression:">> \o column.err)
           ELSE IF "value" \notin DOMAIN raw THEN Err(required("value"))
           ELSE LET value == ComparisonValue_UnmarshalJSON(raw["value"]) IN
           IF value.err # NoErr THEN Err(<<"field", "value", "in", "Expression:">> \o value.err)
           ELSE Ok(result @@ [operator |-> GV("BinaryComparisonOperator", operator.val),
                              column |-> GV("ComparisonTarget", column.val),
                              value |-> GV("ComparisonValue", value.val)])
      [] ty.val = ExpressionTypeBinaryArrayComparisonOperator ->
           IF "operator" \notin DOMAIN raw THEN Err(required("operator"))
           ELSE LET operator == BinaryArrayComparisonOperator_UnmarshalJSON(raw["operator"]) IN
           IF operator.err # NoErr
           THEN Err(<<"field", "operator", "in", "Expression:">> \o operator.err)
           ELSE IF "column" \notin DOMAIN raw THEN Err(required("column"))
           ELSE IF column.err # NoErr
           THEN Err(<<"field", "column", "in", "Expression:">> \o column.err)
           ELSE IF "values" \notin DOMAIN raw THEN Err(required("values"))
           ELSE LET values == UnmarshalComparisonValues(raw["values"]) IN
           IF values.err # NoErr THEN Err(<<"field", "values", "in", "Expression:">> \o values.err)
           ELSE Ok(result @@ [operator |-> GV("BinaryArrayComparisonOperator", operator.val),
                              column |-> GV("ComparisonTarget", column.val),
                              values |-> GV("[]ComparisonValue", values.val)])
      [] ty.val = ExpressionTypeExists ->
           IF "where" \notin DOMAIN raw THEN Err(required("where"))
           ELSE LET where == Expression_UnmarshalJSON(raw["where"]) IN
           IF where.err # NoErr THEN Err(<<"field", "where", "in", "Expression:">> \o where.err)
           ELSE IF "in_collection" \notin DOMAIN raw THEN Err(required("in_collection"))
           ELSE LET inCollection == ExistsInCollection_UnmarshalJSON(raw["in_collection"]) IN
           IF inCollection.err # NoErr
           THEN Err(<<"field", "in_collection", "in", "Expression:">> \o inCollection.err)
           ELSE Ok(result @@ [where |-> GV("Expression", where.val),
                              in_collection |-> GV("ExistsInCollection", inCollection.val)])
      [] OTHER -> Ok(result)

Expression_Type(j) == UnionType(j, "ExpressionType", ParseExpressionType)

Expression_AsAnd(j) ==
    LET t == Expression_Type(j) IN
    IF t.err # NoErr THEN Err(t.err)
    ELSE IF t.val # ExpressionTypeAnd
    THEN Err(<<"invalid", "type;", "expected:", ExpressionTypeAnd, "got:", t.val>>)
    ELSE IF "expressions" \notin DOMAIN j THEN Err(<<"ExpressionAnd.expression", "is", "required">>)
    ELSE IF j["expressions"].g # "[]Expression"
    THEN Err(<<"invalid", "ExpressionAnd.expression", "type;", "expected:", "[]Expression">>)
    ELSE Ok([Type |-> t.val, Expressions |-> j["expressions"].v])

Expression_AsOr(j) ==
    LET t == Expression_Type(j) IN
    IF t.err # NoErr THEN Err(t.err)
    ELSE IF t.val # ExpressionTypeOr
    THEN Err(<<"invalid", "type;", "expected:", ExpressionTypeOr, "got:", t.val>>)
    ELSE IF "expressions" \notin DOMAIN j THEN Err(<<"ExpressionOr.expression", "is", "required">>)
    ELSE IF j["expressions"].g # "[]Expression"
    THEN Err(<<"invalid", "ExpressionOr.expression", "type;", "expected:", "[]Expression">>)
    ELSE Ok([Type |-> t.val, Expressions |-> j["expressions"].v])

Expression_AsNot(j) ==
    LET t == Expression_Type(j) IN
    IF t.err # NoErr THEN Err(t.err)
    ELSE IF t.val # ExpressionTypeNot
    THEN Err(<<"invalid", "type;", "expected:", ExpressionTypeNot, "got:", t.val>>)
    ELSE IF "expression" \notin DOMAIN j THEN Err(<<"ExpressionNot.expression", "is", "required">>)
    ELSE IF j["expression"].g # "Expression"
    THEN Err(<<"invalid", "ExpressionNot.expression", "type;", "expected:", "Expression">>)
    ELSE Ok([Type |-> t.val, Expression |-> j["expression"].v])

Expression_AsUnaryComparisonOperator(j) ==
    LET t == Expression_Type(j) IN
    IF t.err # NoErr THEN Err(t.err)
    ELSE IF t.val # ExpressionTypeUnaryComparisonOperator
    THEN Err(<<"invalid", "type;", "expected:", ExpressionTypeUnaryComparisonOperator, "got:", t.val>>)
    ELSE IF "operator" \notin DOMAIN j
    THEN Err(<<"ExpressionUnaryComparisonOperator.operator", "is", "required">>)
    ELSE IF j["operator"].g \notin {"UnaryComparisonOperator", "string"}
    THEN Err(<<"Invalid", "ExpressionUnaryComparisonOperator.operator", "type;", "expected:", "UnaryComparisonOperator">>)
    ELSE IF "column" \notin DOMAIN j
    THEN Err(<<"ExpressionUnaryComparisonOperator.column", "is", "required">>)
    ELSE IF j["column"].g # "ComparisonTarget"
    THEN Err(<<"Invalid", "ExpressionUnaryComparisonOperator.column", "type;", "expected:", "ComparisonTarget">>)
    ELSE Ok([Type |-> t.val, Operator |-> j["operator"].v, Column |-> j["column"].v])

Expression_AsBinaryComparisonOperator(j) ==
    LET t == Expression_Type(j) IN
    IF t.err # NoErr THEN Err(t.err)
    ELSE IF t.val # ExpressionTypeBinaryComparisonOperator
    THEN Err(<<"invalid", "type;", "expected:", ExpressionTypeBinaryComparisonOperator, "got:", t.val>>)
    ELSE IF "operator" \notin DOMAIN j
    THEN Err(<<"ExpressionBinaryComparisonOperator.operator", "is", "required">>)
    ELSE IF j["operator"].g # "BinaryComparisonOperator"
    THEN Err(<<"invalid", "ExpressionBinaryComparisonOperator.operator", "type;", "expected:", "BinaryComparisonOperator">>)
    ELSE IF "column" \notin DOMAIN j
    THEN Err(<<"ExpressionBinaryComparisonOperator.column", "is", "required">>)
    ELSE IF j["column"].g # "ComparisonTarget"
    THEN Err(<<"invalid", "ExpressionBinaryComparisonOperator.column", "type;", "expected:", "ComparisonTarget">>)
    ELSE IF "value" \notin DOMAIN j
    THEN Err(<<"ExpressionBinaryComparisonOperator.value", "is", "required">>)
    ELSE IF j["value"].g # "ComparisonValue"
    THEN Err(<<"invalid", "ExpressionBinaryComparisonOperator.value", "type;", "expected:", "ComparisonValue">>)
    ELSE Ok([Type |-> t.val, Operator |-> j["operator"].v, Column |-> j["column"].v,
             Value |-> j["value"].v])

Expression_AsBinaryArrayComparisonOperator(j) ==
    LET t == Expression_Type(j) IN
    IF t.err # NoErr THEN Err(t.err)
    ELSE IF t.val # ExpressionTypeBinaryArrayComparisonOperator
    THEN Err(<<"invalid", "type;", "expected:", ExpressionTypeBinaryArrayComparisonOperator, "got:", t.val>>)
    ELSE IF "operator" \notin DOMAIN j
    THEN Err(<<"ExpressionBinaryComparisonOperator.operator", "is", "required">>)
    ELSE IF j["operator"].g # "BinaryArrayComparisonOperator"
    THEN Err(<<"invalid", "ExpressionBinaryArrayComparisonOperator.operator", "type;", "expected:", "BinaryArrayComparisonOperator">>)
    ELSE IF "column" \notin DOMAIN j
    THEN Err(<<"ExpressionBinaryComparisonOperator.column", "is", "required">>)
    ELSE IF j["column"].g # "ComparisonTarget"
    THEN Err(<<"invalid", "ExpressionBinaryArrayComparisonOperator.column", "type;", "expected:", "ComparisonTarget">>)
    ELSE IF "values" \notin DOMAIN j
    THEN Err(<<"ExpressionBinaryComparisonOperator.values", "is", "required">>)
    ELSE IF j["values"].g # "[]ComparisonValue"
    THEN Err(<<"invalid", "ExpressionBinaryArrayComparisonOperator.values", "type;", "expected:", "[]ComparisonValue">>)
    ELSE Ok([Type |-> t.val, Operator |-> j["operator"].v, Column |-> j["column"].v,
             Values |-> j["values"].v])

Expression_AsExists(j) ==
    LET t == Expression_Type(j) IN
    IF t.err # NoErr THEN Err(t.err)
    ELSE IF t.val # ExpressionTypeExists
    THEN Err(<<"invalid", "type;", "expected:", ExpressionTypeExists, "got:", t.val>>)
    ELSE IF "where" \notin DOMAIN j THEN Err(<<"ExpressionExists.where", "is", "required">>)
    ELSE IF j["where"].g # "Expression"
    THEN Err(<<"invalid", "ExpressionExists.where", "type;", "expected:", "Expression">>)
    ELSE IF "in_collection" \notin DOMAIN j
    THEN Err(<<"ExpressionExists.in_collection", "is", "required">>)
    ELSE IF j["in_collection"].g # "ExistsInCollection"
    THEN Err(<<"invalid", "ExpressionExists.in_collection", "type;", "expected:", "ExistsInCollection">>)
    ELSE Ok([Type |-> t.val, Where |-> j["where"].v, InCollection |-> j["in_collection"].v])

\* Interface narrowing an 'or' with the accessor of 'and'.
Expression_Interface_OrAsAnd(j) ==
    LET t == Expression_Type(j) IN
    IF t.err # NoErr THEN Err(t.err)
    ELSE CASE t.val = ExpressionTypeAnd -> Expression_AsAnd(j)
           [] t.val = ExpressionTypeOr ->
                Expression_AsAnd([j EXCEPT !["type"] = GV("ExpressionType", ExpressionTypeAnd)])
           [] t.val = ExpressionTypeNot -> Expression_AsNot(j)
           [] t.val = ExpressionTypeUnaryComparisonOperator -> Expression_AsUnaryComparisonOperator(j)
           [] t.val = ExpressionTypeBinaryComparisonOperator -> Expression_AsBinaryComparisonOperator(j)
           [] t.val = ExpressionTypeBinaryArrayComparisonOperator ->
                Expression_AsBinaryArrayComparisonOperator(j)
           [] t.val = ExpressionTypeExists -> Expression_AsExists(j)
           [] OTHER -> Err(<<"invalid", "type:", t.val>>)

Expression_Interface(j) ==
    LET t == Expression_Type(j) IN
    IF t.err # NoErr THEN Err(t.err)
    ELSE CASE t.val = ExpressionTypeAnd -> Expression_AsAnd(j)
           [] t.val = ExpressionTypeOr -> Expression_AsOr(j)
           [] t.val = ExpressionTypeNot -> Expression_AsNot(j)
           [] t.val = ExpressionTypeUnaryComparisonOperator -> Expression_AsUnaryComparisonOperator(j)
           [] t.val = ExpressionTypeBinaryComparisonOperator -> Expression_AsBinaryComparisonOperator(j)
           [] t.val = ExpressionTypeBinaryArrayComparisonOperator ->
                Expression_AsBinaryArrayComparisonOperator(j)
           [] t.val = ExpressionTypeExists -> Expression_AsExists(j)
           [] OTHER -> Err(<<"invalid", "type:", t.val>>)

ExpressionAnd_Encode(exp) ==
    [type |-> GV("ExpressionType", exp.Type), expressions |-> GV("[]Expression", exp.Expressions)]

ExpressionOr_Encode(exp) ==
    [type |-> GV("ExpressionType", exp.Type), expressions |-> GV("[]Expression", exp.Expressions)]

ExpressionNot_Encode(exp) ==
    [type |-> GV("ExpressionType", exp.Type), expression |-> GV("Expression", exp.Expression)]

ExpressionUnaryComparisonOperator_Encode(exp) ==
    [type |-> GV("ExpressionType", exp.Type),
     operator |-> GV("UnaryComparisonOperator", exp.Operator),
     column |-> GV("ComparisonTarget", exp.Column)]

ExpressionBinaryComparisonOperator_Encode(exp) ==
    [type |-> GV("ExpressionType", exp.Type),
     operator |-> GV("BinaryComparisonOperator", exp.Operator),
     column |-> GV("ComparisonTarget", exp.Column),
     value |-> GV("ComparisonValue", exp.Value)]

\* Encode writing the values last to first.
ExpressionBinaryArrayComparisonOperator_Encode_Reversed(exp) ==
    [type |-> GV("ExpressionType", exp.Type),
     operator |-> GV("BinaryArrayComparisonOperator", exp.Operator),
     column |-> GV("ComparisonTarget", exp.Column),
     values |-> GV("[]ComparisonValue",
                   [i \in 1..Len(exp.Values) |-> exp.Values[Len(exp.Values) + 1 - i]])]

ExpressionBinaryArrayComparisonOperator_Encode(exp) ==
    [type |-> GV("ExpressionType", exp.Type),
     operator |-> GV("BinaryArrayComparisonOperator", exp.Operator),
     column |-> GV("ComparisonTarget", exp.Column),
     values |-> GV("[]ComparisonValue", exp.Values)]

ExpressionExists_Encode(exp) ==
    [type |-> GV("ExpressionType", exp.Type),
     where |-> GV("Expression", exp.Where),
     in_collection |-> GV("ExistsInCollection", exp.InCollection)]

----------------------------------------------------------------------------
(* Aggregate *)

AggregateTypeColumnCount == "column_count"
AggregateTypeSingleColumn == "single_column"
AggregateTypeStarCount == "star_count"

enumValues_AggregateType ==
    <<AggregateTypeColumnCount, AggregateTypeSingleColumn, AggregateTypeStarCount>>

ParseAggregateType(input) ==
    IF ~Contains(enumValues_AggregateType, input)
    THEN Err(<<"failed", "to", "parse", "AggregateType,", "expect", "one", "of">>
             \o enumValues_AggregateType)
    ELSE Ok(input)

AggregateType_UnmarshalJSON(b) ==
    LET rawValue == UnmarshalString(b) IN
    IF rawValue.err # NoErr THEN Err(rawValue.err)
    ELSE ParseAggregateType(rawValue.val)

Aggregate_UnmarshalJSON(b) ==
    LET r == UnmarshalRawMap(b) IN
    IF r.err # NoErr THEN Err(r.err)
    ELSE LET raw == r.val IN
    IF "type" \notin DOMAIN raw THEN Err(<<"field", "type", "in", "Aggregate:", "required">>)
    ELSE LET ty == AggregateType_UnmarshalJSON(raw["type"]) IN
    IF ty.err # NoErr THEN Err(<<"field", "type", "in", "Aggregate:">> \o ty.err)
    ELSE LET result == [type |-> GV("AggregateType", ty.val)]
             column == IF "column" \in DOMAIN raw THEN UnmarshalString(raw["column"]) ELSE Err(NoErr) IN
    CASE ty.val = AggregateTypeStarCount -> Ok(result)
      [] ty.val = AggregateTypeSingleColumn ->
           IF "column" \notin DOMAIN raw
           THEN Err(<<"field", "column", "in", "Aggregate", "is", "required", "for", "single_column", "type">>)
           ELSE IF column.err # NoErr THEN Err(<<"field", "column", "in", "Aggregate:">> \o column.err)
           ELSE IF "function" \notin DOMAIN raw
           THEN Err(<<"field", "function", "in", "Aggregate", "is", "required", "for", "single_column", "type">>)
           ELSE LET function == UnmarshalString(raw["function"]) IN
           IF function.err # NoErr THEN Err(<<"field", "function", "in", "Aggregate:">> \o function.err)
           ELSE Ok(result @@ [column |-> GV("string", column.val),
                              function |-> GV("string", function.val)])
      [] ty.val = AggregateTypeColumnCount ->
           IF "column" \notin DOMAIN raw
           THEN Err(<<"field", "column", "in", "Aggregate", "is", "required", "for", "column_count", "type">>)
           ELSE IF column.err # NoErr THEN Err(<<"field", "column", "in", "Aggregate:">> \o column.err)
           ELSE IF "distinct" \notin DOMAIN raw
           THEN Err(<<"field", "distinct", "in", "Aggregate", "is", "required", "for", "column_count", "type">>)
           ELSE LET distinct == UnmarshalBool(raw["distinct"]) IN
           IF distinct.err # NoErr THEN Err(<<"field", "distinct", "in", "Aggregate:">> \o distinct.err)
           ELSE Ok(result @@ [column |-> GV("string", column.val),
                              distinct |-> GV("bool", distinct.val)])
      [] OTHER -> Ok(result)

Aggregate_Type(j) == UnionType(j, "AggregateType", ParseAggregateType)

\* AsStarCount without the comparison of the discriminant.
Aggregate_AsStarCount_Unchecked(j) ==
    LET t == Aggregate_Type(j) IN
    IF t.err # NoErr THEN Err(t.err)
    ELSE Ok([Type |-> AggregateTypeStarCount])

Aggregate_AsStarCount(j) ==
    LET t == Aggregate_Type(j) IN
    IF t.err # NoErr THEN Err(t.err)
    ELSE IF t.val # AggregateTypeStarCount
    THEN Err(<<"invalid", "type;", "expected:", AggregateTypeStarCount, "got:", t.val>>)
    ELSE Ok([Type |-> t.val])

Aggregate_AsSingleColumn(j) ==
    LET t == Aggregate_Type(j) IN
    IF t.err # NoErr THEN Err(t.err)
    ELSE IF t.val # AggregateTypeSingleColumn
    THEN Err(<<"invalid", "type;", "expected:", AggregateTypeSingleColumn, "got:", t.val>>)
    ELSE LET column == getStringValueByKey(j, "column")
             function == getStringValueByKey(j, "function") IN
    IF column = "" THEN Err(<<"AggregateSingleColumn.column", "is", "required">>)
    ELSE IF function = "" THEN Err(<<"AggregateSingleColumn.function", "is", "required">>)
    ELSE Ok([Type |-> t.val, Column |-> column, Function |-> function])

Aggregate_AsColumnCount(j) ==
    LET t == Aggregate_Type(j) IN
    IF t.err # NoErr THEN Err(t.err)
    ELSE IF t.val # AggregateTypeColumnCount
    THEN Err(<<"invalid", "type;", "expected:", AggregateTypeColumnCount, "got:", t.val>>)
    ELSE LET column == getStringValueByKey(j, "column") IN
    IF column = "" THEN Err(<<"AggregateColumnCount.column", "is", "required">>)
    ELSE IF "distinct" \notin DOMAIN j THEN Err(<<"AggregateColumnCount.distinct", "is", "required">>)
    ELSE IF j["distinct"].g # "bool"
    THEN Err(<<"invalid", "AggregateColumnCount.distinct", "type;", "expected", "bool">>)
    ELSE Ok([Type |-> t.val, Column |-> column, Distinct |-> j["distinct"].v])

Aggregate_Interface(j) ==
    LET t == Aggregate_Type(j) IN
    IF t.err # NoErr THEN Err(t.err)
    ELSE CASE t.val = AggregateTypeStarCount -> Aggregate_AsStarCount(j)
           [] t.val = AggregateTypeColumnCount -> Aggregate_AsColumnCount(j)
           [] t.val = AggregateTypeSingleColumn -> Aggregate_AsSingleColumn(j)
           [] OTHER -> Err(<<"invalid", "type:", t.val>>)

AggregateStarCount_Encode(ag) == [type |-> GV("AggregateType", ag.Type)]

AggregateSingleColumn_Encode(ag) ==
    [type |-> GV("AggregateType", ag.Type), column |-> GV("string", ag.Column),
     function |-> GV("string", ag.Function)]

AggregateColumnCount_Encode(ag) ==
    [type |-> GV("AggregateType", ag.Type), column |-> GV("string", ag.Column),
     distinct |-> GV("bool", ag.Distinct)]

----------------------------------------------------------------------------
(* OrderByTarget *)

OrderByTargetTypeColumn == "column"
OrderByTargetTypeSingleColumnAggregate == "single_column_aggregate"
OrderByTargetTypeStarCountAggregate == "star_count_aggregate"

enumValues_OrderByTargetType ==
    <<OrderByTargetTypeColumn, OrderByTargetTypeSingleColumnAggregate,
      OrderByTargetTypeStarCountAggregate>>

ParseOrderByTargetType(input) ==
    IF ~Contains(enumValues_OrderByTargetType, input)
    THEN Err(<<"failed", "to", "parse", "OrderByTargetType,", "expect", "one", "of">>
             \o enumValues_OrderByTargetType)
    ELSE Ok(input)

OrderByTargetType_UnmarshalJSON(b) ==
    LET rawValue == UnmarshalString(b) IN
    IF rawValue.err # NoErr THEN Err(rawValue.err)
    ELSE ParseOrderByTargetType(rawValue.val)

OrderByTarget_UnmarshalJSON(b) ==
    LET r == UnmarshalRawMap(b) IN
    IF r.err # NoErr THEN Err(r.err)
    ELSE LET raw == r.val IN
    IF "type" \notin DOMAIN raw THEN Err(<<"field", "type", "in", "OrderByTarget:", "required">>)
    ELSE LET ty == OrderByTargetType_UnmarshalJSON(raw["type"]) IN
    IF ty.err # NoErr THEN Err(<<"field", "type", "in", "OrderByTarget:">> \o ty.err)
    ELSE LET result == [type |-> GV("OrderByTargetType", ty.val)]
             required(key) == <<"field", key, "in", "OrderByTarget", "is", "required", "for", ty.val, "type">>
             column == IF "column" \in DOMAIN raw THEN UnmarshalString(raw["column"]) ELSE Err(NoErr)
             pathElem == IF "path" \in DOMAIN raw THEN UnmarshalPath(raw["path"]) ELSE Err(NoErr) IN
    CASE ty.val = OrderByTargetTypeColumn ->
           IF "column" \notin DOMAIN raw THEN Err(required("column"))
           ELSE IF column.err # NoErr THEN Err(<<"field", "column", "in", "OrderByTarget:">> \o column.err)
           ELSE IF "path" \notin DOMAIN raw THEN Err(required("path"))
           ELSE IF pathElem.err # NoErr THEN Err(<<"field", "path", "in", "OrderByTarget:">> \o pathElem.err)
           ELSE Ok(result @@ [column |-> GV("string", column.val),
                              path |-> GV("[]PathElement", pathElem.val)])
      [] ty.val = OrderByTargetTypeSingleColumnAggregate ->
           IF "column" \notin DOMAIN raw THEN Err(required("column"))
           ELSE IF column.err # NoErr THEN Err(<<"field", "column", "in", "OrderByTarget:">> \o column.err)
           ELSE IF "function" \notin DOMAIN raw THEN Err(required("function"))
           ELSE LET function == UnmarshalString(raw["function"]) IN
           IF function.err # NoErr THEN Err(<<"field", "function", "in", "OrderByTarget:">> \o function.err)
           ELSE IF "path" \notin DOMAIN raw THEN Err(required("path"))
           ELSE IF pathElem.err # NoErr THEN Err(<<"field", "path", "in", "OrderByTarget:">> \o pathElem.err)
           ELSE Ok(result @@ [column |-> GV("string", column.val),
                              function |-> GV("string", function.val),
                              path |-> GV("[]PathElement", pathElem.val)])
      [] ty.val = OrderByTargetTypeStarCountAggregate ->
           IF "path" \notin DOMAIN raw THEN Err(required("path"))
           ELSE IF pathElem.err # NoErr THEN Err(<<"field", "path", "in", "OrderByTarget:">> \o pathElem.err)
           ELSE Ok(result @@ [path |-> GV("[]PathElement", pathElem.val)])
      [] OTHER -> Ok(result)

OrderByTarget_Type(j) == UnionType(j, "OrderByTargetType", ParseOrderByTargetType)

OrderByTarget_AsColumn(j) ==
    LET t == OrderByTarget_Type(j) IN
    IF t.err # NoErr THEN Err(t.err)
    ELSE IF t.val # OrderByTargetTypeColumn
    THEN Err(<<"invalid", "type;", "expected:", OrderByTargetTypeColumn, "got:", t.val>>)
    ELSE LET column == getStringValueByKey(j, "column") IN
    IF column = "" THEN Err(<<"OrderByColumn.column", "is", "required">>)
    ELSE IF "path" \notin DOMAIN j THEN Err(<<"OrderByColumn.path", "is", "required">>)
    ELSE IF j["path"].g # "[]PathElement"
    THEN Err(<<"invalid", "OrderByColumn.path", "type;", "expected:", "[]PathElement">>)
    ELSE Ok([Type |-> t.val, Column |-> column, Path |-> j["path"].v])

OrderByTarget_AsSingleColumnAggregate(j) ==
    LET t == OrderByTarget_Type(j) IN
    IF t.err # NoErr THEN Err(t.err)
    ELSE IF t.val # OrderByTargetTypeSingleColumnAggregate
    THEN Err(<<"invalid", "type;", "expected:", OrderByTargetTypeSingleColumnAggregate, "got:", t.val>>)
    ELSE LET column == getStringValueByKey(j, "column")
             function == getStringValueByKey(j, "function") IN
    IF column = "" THEN Err(<<"OrderBySingleColumnAggregate.column", "is", "required">>)
    ELSE IF function = "" THEN Err(<<"OrderBySingleColumnAggregate.function", "is", "required">>)
    ELSE IF "path" \notin DOMAIN j THEN Err(<<"OrderBySingleColumnAggregate.path", "is", "required">>)
    ELSE IF j["path"].g # "[]PathElement"
    THEN Err(<<"invalid", "OrderBySingleColumnAggregate.path", "type;", "expected:", "[]PathElement">>)
    ELSE Ok([Type |-> t.val, Column |-> column, Function |-> function, Path |-> j["path"].v])

OrderByTarget_AsStarCountAggregate(j) ==
    LET t == OrderByTarget_Type(j) IN
    IF t.err # NoErr THEN Err(t.err)
    ELSE IF t.val # OrderByTargetTypeStarCountAggregate
    THEN Err(<<"invalid", "type;", "expected:", OrderByTargetTypeStarCountAggregate, "got:", t.val>>)
    ELSE IF "path" \notin DOMAIN j THEN Err(<<"OrderByStarCountAggregate.path", "is", "required">>)
    ELSE IF j["path"].g # "[]PathElement"
    THEN Err(<<"invalid", "OrderByStarCountAggregate.path", "type;", "expected:", "[]PathElement">>)
    ELSE Ok([Type |-> t.val, Path |-> j["path"].v])

OrderByTarget_Interface(j) ==
    LET t == OrderByTarget_Type(j) IN
    IF t.err # NoErr THEN Err(t.err)
    ELSE CASE t.val = OrderByTargetTypeColumn -> OrderByTarget_AsColumn(j)
           [] t.val = OrderByTargetTypeSingleColumnAggregate -> OrderByTarget_AsSingleColumnAggregate(j)
           [] t.val = OrderByTargetTypeStarCountAggregate -> OrderByTarget_AsStarCountAggregate(j)
           [] OTHER -> Err(<<"invalid", "type:", t.val>>)

\* Encode leaving out an empty path.
OrderByColumn_Encode_OmitEmpty(ob) ==
    IF ob.Path = <<>>
    THEN [type |-> GV("OrderByTargetType", ob.Type), column |-> GV("string", ob.Column)]
    ELSE [type |-> GV("OrderByTargetType", ob.Type), column |-> GV("string", ob.Column),
          path |-> GV("[]PathElement", ob.Path)]

OrderByColumn_Encode(ob) ==
    [type |-> GV("OrderByTargetType", ob.Type), column |-> GV("string", ob.Column),
     path |-> GV("[]PathElement", ob.Path)]

OrderBySingleColumnAggregate_Encode(ob) ==
    [type |-> GV("OrderByTargetType", ob.Type), column |-> GV("string", ob.Column),
     function |-> GV("string", ob.Function), path |-> GV("[]PathElement", ob.Path)]

OrderByStarCountAggregate_Encode(ob) ==
    [type |-> GV("OrderByTargetType", ob.Type), path |-> GV("[]PathElement", ob.Path)]

----------------------------------------------------------------------------
(* json.Marshal *)

\* The Go types whose JSON form is a string: string and the named string
\* types.
StringKinds ==
    {"string", "TypeEnum", "FieldType", "ComparisonValueType", "ExistsInCollectionType",
     "ExpressionType", "AggregateType", "OrderByTargetType", "UnaryComparisonOperator",
     "BinaryArrayComparisonOperator"}

\* The unions that are a map[string]any.
MapUnions ==
    {"Type", "Field", "ComparisonValue", "ExistsInCollection", "Expression", "Aggregate",
     "OrderByTarget"}

\* json.Marshal of a RelationshipArgument: the struct has no omitempty.
RelationshipArgument_Marshal(a, value) ==
    JObj([type |-> JStr(a.Type), name |-> JStr(a.Name), value |-> value])

\* json.Marshal of a value held in a raw map.
RECURSIVE MarshalJSON(_)
MarshalJSON(gv) ==
    CASE gv.g = "nil" -> JNull
      [] gv.g \in StringKinds -> JStr(gv.v)
      [] gv.g = "bool" -> JBool(gv.v)
      [] gv.g = "float64" -> JNum(gv.v)
      [] gv.g \in MapUnions \cup {"map[string]interface{}"} ->
           JObj([k \in DOMAIN gv.v |-> MarshalJSON(gv.v[k])])
      [] gv.g = "[]interface{}" -> JArr([i \in DOMAIN gv.v |-> MarshalJSON(gv.v[i])])
      [] gv.g = "[]Expression" ->
           JArr([i \in DOMAIN gv.v |-> MarshalJSON(GV("Expression", gv.v[i]))])
      [] gv.g = "[]ComparisonValue" ->
           JArr([i \in DOMAIN gv.v |-> MarshalJSON(GV("ComparisonValue", gv.v[i]))])
      [] gv.g = "ComparisonTarget" -> ComparisonTarget_Marshal(gv.v)
      [] gv.g = "BinaryComparisonOperator" -> BinaryComparisonOperator_Marshal(gv.v)
      [] gv.g = "map[string]RelationshipArgument" ->
           JObj([k \in DOMAIN gv.v |->
                    RelationshipArgument_Marshal(gv.v[k], MarshalJSON(gv.v[k].Value))])
      [] gv.g = "[]PathElement" -> MarshalPath(gv.v)
      [] gv.g = "Query" -> JV("query", gv.v)

----------------------------------------------------------------------------
(* Values a round trip starts from *)

\* The sequences over S of length at most n.
RECURSIVE SeqsUpTo(_, _)
SeqsUpTo(S, n) ==
    IF n = 0 THEN {<<>>}
    ELSE SeqsUpTo(S, n - 1) \cup {Append(s, e) : s \in {t \in SeqsUpTo(S, n - 1) : Len(t) = n - 1}, e \in S}

TypeNames == {"", "Int", "String"}

\* The Type variant structs of nesting depth at most d.  UnderlyingType and
\* ElementType hold a raw Type map, the Encode of the tree below.
RECURSIVE TypeTrees(_)
TypeTrees(d) ==
    IF d = 0 THEN {}
    ELSE {NewNamedType(n) : n \in TypeNames}
         \cup {[Type |-> TypeNullable, UnderlyingType |-> TypeEncoder_Encode(t)] : t \in TypeTrees(d - 1)}
         \cup {NewArrayType(t) : t \in TypeTrees(d - 1)}

TypeValues == TypeTrees(MaxTypeDepth)

ColumnNames == {"", "id"}
FunctionNames == {"", "sum"}
RelationshipNames == {"", "rel"}
CollectionNames == {"", "coll"}
VariableNames == {"", "v"}
Queries == {"q1", "q2"}
Bools == {"true", "false"}

\* Relationship arguments as RelationshipArgument.UnmarshalJSON leaves
\* them: a literal carries only its value, a variable or a column only
\* its non-empty name.
RelationshipArgumentMaps ==
    {<<>>,
     [a |-> [Type |-> RelationshipArgumentTypeLiteral, Name |-> "", Value |-> GV("float64", "1")]],
     [a |-> [Type |-> RelationshipArgumentTypeVariable, Name |-> "v", Value |-> Nil],
      b |-> [Type |-> RelationshipArgumentTypeColumn, Name |-> "id", Value |-> Nil]]}

Paths == SeqsUpTo({"r1", "r2"}, MaxListLen)

ComparisonTargets ==
    {[Type |-> ComparisonTargetTypeColumn, Name |-> "id", Path |-> <<>>],
     [Type |-> ComparisonTargetTypeRootCollectionColumn, Name |-> "", Path |-> <<"r1">>]}

\* Scalar payloads: the values encoding/json produces for an any.
ScalarPayloads ==
    {Nil, GV("string", "a"), GV("string", ""), GV("float64", "1"), GV("bool", "true"),
     GV("[]interface{}", <<GV("string", "a"), Nil>>),
     GV("map[string]interface{}", [k |-> GV("float64", "1")])}

FieldValues ==
    {[Type |-> FieldTypeColumn, Column |-> c] : c \in ColumnNames}
    \cup {[Type |-> FieldTypeRelationship, Query |-> q, Relationship |-> r, Arguments |-> a] :
            q \in Queries, r \in RelationshipNames, a \in RelationshipArgumentMaps}

AggregateValues ==
    {[Type |-> AggregateTypeStarCount]}
    \cup {[Type |-> AggregateTypeSingleColumn, Column |-> c, Function |-> f] :
            c \in ColumnNames, f \in FunctionNames}
    \cup {[Type |-> AggregateTypeColumnCount, Column |-> c, Distinct |-> d] :
            c \in ColumnNames, d \in Bools}

OrderByTargetValues ==
    {[Type |-> OrderByTargetTypeColumn, Column |-> c, Path |-> p] : c \in ColumnNames, p \in Paths}
    \cup {[Type |-> OrderByTargetTypeSingleColumnAggregate, Column |-> c, Function |-> f, Path |-> p] :
            c \in ColumnNames, f \in FunctionNames, p \in Paths}
    \cup {[Type |-> OrderByTargetTypeStarCountAggregate, Path |-> p] : p \in Paths}

ComparisonValueValues ==
    {[Type |-> ComparisonValueTypeColumn, Column |-> t] : t \in ComparisonTargets}
    \cup {[Type |-> ComparisonValueTypeScalar, Value |-> s] : s \in ScalarPayloads}
    \cup {[Type |-> ComparisonValueTypeVariable, Name |-> n] : n \in VariableNames}

ExistsInCollectionValues ==
    {[Type |-> ExistsInCollectionTypeRelated, Relationship |-> r, Arguments |-> a] :
        r \in RelationshipNames, a \in RelationshipArgumentMaps}
    \cup {[Type |-> ExistsInCollectionTypeUnrelated, Collection |-> c, Arguments |-> a] :
            c \in CollectionNames, a \in RelationshipArgumentMaps}

BinaryComparisonOperators ==
    {[Type |-> BinaryComparisonOperatorTypeEqual, Name |-> ""],
     [Type |-> BinaryComparisonOperatorTypeOther, Name |-> "like"]}

ComparisonValueMaps ==
    {ComparisonValueColumn_Encode(v) : v \in {w \in ComparisonValueValues : w.Type = ComparisonValueTypeColumn}}
    \cup {ComparisonValueScalar_Encode(v) : v \in {w \in ComparisonValueValues : w.Type = ComparisonValueTypeScalar}}
    \cup {ComparisonValueVariable_Encode(v) : v \in {w \in ComparisonValueValues : w.Type = ComparisonValueTypeVariable}}

\* The comparison values the lists of a binary array comparison are made of.
ListedComparisonValues ==
    {ComparisonValueVariable_Encode([Type |-> ComparisonValueTypeVariable, Name |-> "v"]),
     ComparisonValueScalar_Encode([Type |-> ComparisonValueTypeScalar, Value |-> GV("float64", "1")]),
     ComparisonValueScalar_Encode([Type |-> ComparisonValueTypeScalar, Value |-> Nil])}

NestedExistsInCollections ==
    {ExistsInCollectionRelated_Encode(
        [Type |-> ExistsInCollectionTypeRelated, Relationship |-> "rel",
         Arguments |-> [a |-> [Type |-> RelationshipArgumentTypeColumn, Name |-> "id", Value |-> Nil]]]),
     ExistsInCollectionUnrelated_Encode(
        [Type |-> ExistsInCollectionTypeUnrelated, Collection |-> "coll", Arguments |-> <<>>]),
     ExistsInCollectionUnrelated_Encode(
        [Type |-> ExistsInCollectionTypeUnrelated, Collection |-> "",
         Arguments |-> [a |-> [Type |-> RelationshipArgumentTypeLiteral, Name |-> "",
                               Value |-> GV("string", "a")]]])}

\* The comparisons at the top of an expression tree.
UnaryComparisonValues ==
    {[Type |-> ExpressionTypeUnaryComparisonOperator, Operator |-> UnaryComparisonOperatorIsNull,
      Column |-> t] : t \in ComparisonTargets}

BinaryComparisonValues ==
    {[Type |-> ExpressionTypeBinaryComparisonOperator, Operator |-> o, Column |-> t, Value |-> v] :
        o \in BinaryComparisonOperators, t \in ComparisonTargets, v \in ComparisonValueMaps}

BinaryArrayComparisonValues ==
    {[Type |-> ExpressionTypeBinaryArrayComparisonOperator,
      Operator |-> BinaryArrayComparisonOperatorIn, Column |-> t, Values |-> vs] :
        t \in ComparisonTargets, vs \in SeqsUpTo(ListedComparisonValues, MaxListLen)}

\* The comparisons below the top of an expression tree.
NestedComparisons ==
    {ExpressionUnaryComparisonOperator_Encode(
        [Type |-> ExpressionTypeUnaryComparisonOperator, Operator |-> UnaryComparisonOperatorIsNull,
         Column |-> [Type |-> ComparisonTargetTypeColumn, Name |-> "id", Path |-> <<>>]]),
     ExpressionBinaryComparisonOperator_Encode(
        [Type |-> ExpressionTypeBinaryComparisonOperator,
         Operator |-> [Type |-> BinaryComparisonOperatorTypeEqual, Name |-> ""],
         Column |-> [Type |-> ComparisonTargetTypeRootCollectionColumn, Name |-> "", Path |-> <<"r1">>],
         Value |-> ComparisonValueVariable_Encode([Type |-> ComparisonValueTypeVariable, Name |-> ""])]),
     ExpressionBinaryArrayComparisonOperator_Encode(
        [Type |-> ExpressionTypeBinaryArrayComparisonOperator,
         Operator |-> BinaryArrayComparisonOperatorIn,
         Column |-> [Type |-> ComparisonTargetTypeColumn, Name |-> "id", Path |-> <<>>],
         Values |-> <<ComparisonValueScalar_Encode([Type |-> ComparisonValueTypeScalar, Value |-> GV("string", "a")]),
                      ComparisonValueVariable_Encode([Type |-> ComparisonValueTypeVariable, Name |-> "v"])>>])}

\* The expressions a list continues with after its first element.
ListedExpressions ==
    {e \in NestedComparisons : e.type.v = ExpressionTypeUnaryComparisonOperator}

\* The raw Expression maps of nesting depth at most d, and the variant
\* structs whose sub-expressions have depth below d.  A list is empty or
\* starts with any expression of the depth below.
RECURSIVE ExpressionMaps(_)
ExpressionLists(d) ==
    {<<>>} \cup {<<e>> \o t : e \in ExpressionMaps(d - 1),
                              t \in SeqsUpTo(ListedExpressions, MaxListLen - 1)}
AndValues(d) == {[Type |-> ExpressionTypeAnd, Expressions |-> l] : l \in ExpressionLists(d)}
OrValues(d) == {[Type |-> ExpressionTypeOr, Expressions |-> l] : l \in ExpressionLists(d)}
NotValues(d) == {[Type |-> ExpressionTypeNot, Expression |-> e] : e \in ExpressionMaps(d - 1)}
ExistsValues(d) ==
    {[Type |-> ExpressionTypeExists, Where |-> e, InCollection |-> c] :
        e \in ExpressionMaps(d - 1), c \in NestedExistsInCollections}
ExpressionMaps(d) ==
    IF d = 0 THEN {}
    ELSE NestedComparisons
         \cup {ExpressionAnd_Encode(v) : v \in AndValues(d)}
         \cup {ExpressionOr_Encode(v) : v \in OrValues(d)}
         \cup {ExpressionNot_Encode(v) : v \in NotValues(d)}
         \cup {ExpressionExists_Encode(v) : v \in ExistsValues(d)}

\* The expression variant structs a round trip starts from.
ExpressionValues ==
    UnaryComparisonValues \cup BinaryComparisonValues \cup BinaryArrayComparisonValues
    \cup AndValues(MaxExprDepth) \cup OrValues(MaxExprDepth)
    \cup NotValues(MaxExprDepth) \cup ExistsValues(MaxExprDepth)

Values(u) ==
    CASE u = "Type" -> TypeValues
      [] u = "Field" -> FieldValues
      [] u = "Aggregate" -> AggregateValues
      [] u = "OrderByTarget" -> OrderByTargetValues
      [] u = "ComparisonValue" -> ComparisonValueValues
      [] u = "ExistsInCollection" -> ExistsInCollectionValues
      [] u = "Expression" -> ExpressionValues

----------------------------------------------------------------------------
(* The unions, their tags, encoders, decoders and accessors *)

StructUnions == {"Argument", "RelationshipArgument", "MutationOperation"}

Unions == MapUnions \cup StructUnions

\* The Go type of the discriminant a decoder stores under "type".
EnumType(u) == IF u = "Type" THEN "TypeEnum" ELSE u \o "Type"

\* The enumerated tags of a union.
Tags(u) ==
    CASE u = "Type" -> Range(enumValues_Type)
      [] u = "Field" -> {FieldTypeColumn, FieldTypeRelationship}
      [] u = "ComparisonValue" -> Range(enumValues_ComparisonValueType)
      [] u = "ExistsInCollection" -> Range(enumValues_ExistsInCollectionType)
      [] u = "Expression" -> Range(enumValues_ExpressionType)
      [] u = "Aggregate" -> Range(enumValues_AggregateType)
      [] u = "OrderByTarget" -> Range(enumValues_OrderByTargetType)
      [] u = "Argument" -> {ArgumentTypeLiteral, ArgumentTypeVariable}
      [] u = "RelationshipArgument" ->
           {RelationshipArgumentTypeLiteral, RelationshipArgumentTypeVariable,
            RelationshipArgumentTypeColumn}
      [] u = "MutationOperation" -> {MutationOperationProcedure}

\* v.Encode(), dispatched on the variant struct v is.
Encode(u, v) ==
    CASE u = "Type" -> TypeEncoder_Encode(v)
      [] u = "Field" /\ v.Type = FieldTypeColumn -> ColumnField_Encode(v)
      [] u = "Field" /\ v.Type = FieldTypeRelationship -> RelationshipField_Encode(v)
      [] u = "ComparisonValue" /\ v.Type = ComparisonValueTypeColumn -> ComparisonValueColumn_Encode(v)
      [] u = "ComparisonValue" /\ v.Type = ComparisonValueTypeScalar -> ComparisonValueScalar_Encode(v)
      [] u = "ComparisonValue" /\ v.Type = ComparisonValueTypeVariable -> ComparisonValueVariable_Encode(v)
      [] u = "ExistsInCollection" /\ v.Type = ExistsInCollectionTypeRelated ->
           ExistsInCollectionRelated_Encode(v)
      [] u = "ExistsInCollection" /\ v.Type = ExistsInCollectionTypeUnrelated ->
           ExistsInCollectionUnrelated_Encode(v)
      [] u = "Expression" /\ v.Type = ExpressionTypeAnd -> ExpressionAnd_Encode(v)
      [] u = "Expression" /\ v.Type = ExpressionTypeOr -> ExpressionOr_Encode(v)
      [] u = "Expression" /\ v.Type = ExpressionTypeNot -> ExpressionNot_Encode(v)
      [] u = "Expression" /\ v.Type = ExpressionTypeUnaryComparisonOperator ->
           ExpressionUnaryComparisonOperator_Encode(v)
      [] u = "Expression" /\ v.Type = ExpressionTypeBinaryComparisonOperator ->
           ExpressionBinaryComparisonOperator_Encode(v)
      [] u = "Expression" /\ v.Type = ExpressionTypeBinaryArrayComparisonOperator ->
           ExpressionBinaryArrayComparisonOperator_Encode(v)
      [] u = "Expression" /\ v.Type = ExpressionTypeExists -> ExpressionExists_Encode(v)
      [] u = "Aggregate" /\ v.Type = AggregateTypeStarCount -> AggregateStarCount_Encode(v)
      [] u = "Aggregate" /\ v.Type = AggregateTypeSingleColumn -> AggregateSingleColumn_Encode(v)
      [] u = "Aggregate" /\ v.Type = AggregateTypeColumnCount -> AggregateColumnCount_Encode(v)
      [] u = "OrderByTarget" /\ v.Type = OrderByTargetTypeColumn -> OrderByColumn_Encode(v)
      [] u = "OrderByTarget" /\ v.Type = OrderByTargetTypeSingleColumnAggregate ->
           OrderBySingleColumnAggregate_Encode(v)
      [] u = "OrderByTarget" /\ v.Type = OrderByTargetTypeStarCountAggregate ->
           OrderByStarCountAggregate_Encode(v)

\* json.Unmarshal(b, &j) with j a value of the union u.
UnmarshalJSON(u, b) ==
    CASE u = "Type" -> Type_UnmarshalJSON(b)
      [] u = "Field" -> Field_UnmarshalJSON(b)
      [] u = "ComparisonValue" -> ComparisonValue_UnmarshalJSON(b)
      [] u = "ExistsInCollection" -> ExistsInCollection_UnmarshalJSON(b)
      [] u = "Expression" -> Expression_UnmarshalJSON(b)
      [] u = "Aggregate" -> Aggregate_UnmarshalJSON(b)
      [] u = "OrderByTarget" -> OrderByTarget_UnmarshalJSON(b)
      [] u = "Argument" -> Argument_UnmarshalJSON(b)
      [] u = "RelationshipArgument" -> RelationshipArgument_UnmarshalJSON(b)
      [] u = "MutationOperation" -> MutationOperation_UnmarshalJSON(b)

\* j.Interface() of the union u.
Interface(u, j) ==
    CASE u = "Type" -> Type_Interface(j)
      [] u = "Field" -> Field_Interface(j)
      [] u = "ComparisonValue" -> ComparisonValue_Interface(j)
      [] u = "ExistsInCollection" -> ExistsInCollection_Interface(j)
      [] u = "Expression" -> Expression_Interface(j)
      [] u = "Aggregate" -> Aggregate_Interface(j)
      [] u = "OrderByTarget" -> OrderByTarget_Interface(j)

\* The narrowing accessor of the union u for the variant of tag a.
As(u, a, j) ==
    CASE u = "Type" /\ a = TypeNamed -> Type_AsNamed(j)
      [] u = "Type" /\ a = TypeNullable -> Type_AsNullable(j)
      [] u = "Type" /\ a = TypeArray -> Type_AsArray(j)
      [] u = "Field" /\ a = FieldTypeColumn -> Field_AsColumn(j)
      [] u = "Field" /\ a = FieldTypeRelationship -> Field_AsRelationship(j)
      [] u = "ComparisonValue" /\ a = ComparisonValueTypeColumn -> ComparisonValue_AsColumn(j)
      [] u = "ComparisonValue" /\ a = ComparisonValueTypeScalar -> ComparisonValue_AsScalar(j)
      [] u = "ComparisonValue" /\ a = ComparisonValueTypeVariable -> ComparisonValue_AsVariable(j)
      [] u = "ExistsInCollection" /\ a = ExistsInCollectionTypeRelated -> ExistsInCollection_AsRelated(j)
      [] u = "ExistsInCollection" /\ a = ExistsInCollectionTypeUnrelated ->
           ExistsInCollection_AsUnrelated(j)
      [] u = "Expression" /\ a = ExpressionTypeAnd -> Expression_AsAnd(j)
      [] u = "Expression" /\ a = ExpressionTypeOr -> Expression_AsOr(j)
      [] u = "Expression" /\ a = ExpressionTypeNot -> Expression_AsNot(j)
      [] u = "Expression" /\ a = ExpressionTypeUnaryComparisonOperator ->
           Expression_AsUnaryComparisonOperator(j)
      [] u = "Expression" /\ a = ExpressionTypeBinaryComparisonOperator ->
           Expression_AsBinaryComparisonOperator(j)
      [] u = "Expression" /\ a = ExpressionTypeBinaryArrayComparisonOperator ->
           Expression_AsBinaryArrayComparisonOperator(j)
      [] u = "Expression" /\ a = ExpressionTypeExists -> Expression_AsExists(j)
      [] u = "Aggregate" /\ a = AggregateTypeStarCount -> Aggregate_AsStarCount(j)
      [] u = "Aggregate" /\ a = AggregateTypeSingleColumn -> Aggregate_AsSingleColumn(j)
      [] u = "Aggregate" /\ a = AggregateTypeColumnCount -> Aggregate_AsColumnCount(j)
      [] u = "OrderByTarget" /\ a = OrderByTargetTypeColumn -> OrderByTarget_AsColumn(j)
      [] u = "OrderByTarget" /\ a = OrderByTargetTypeSingleColumnAggregate ->
           OrderByTarget_AsSingleColumnAggregate(j)
      [] u = "OrderByTarget" /\ a = OrderByTargetTypeStarCountAggregate ->
           OrderByTarget_AsStarCountAggregate(j)

----------------------------------------------------------------------------
(* Payloads and raw maps a run starts from *)

\* The values whose JSON form is a payload the decoder accepts.
DecodableValues(u) ==
    CASE u = "Type" -> TypeValues
      [] u = "Field" -> {v \in FieldValues :
                            IF v.Type = FieldTypeColumn THEN v.Column # "" ELSE v.Relationship # ""}
      [] u = "Expression" ->
           UnaryComparisonValues \cup BinaryComparisonValues \cup BinaryArrayComparisonValues
           \cup AndValues(2) \cup OrValues(2)
           \cup NotValues(2) \cup ExistsValues(2)
      [] OTHER -> Values(u)

\* The JSON form of a value of a map union.
JSONOf(u, v) == MarshalJSON(GV(u, Encode(u, v)))

ValidPayloads(u) ==
    CASE u \in MapUnions -> {JSONOf(u, v) : v \in DecodableValues(u)}
      [] u = "Argument" ->
           {JObj([type |-> JStr(ArgumentTypeLiteral), value |-> JNum("1")]),
            JObj([type |-> JStr(ArgumentTypeVariable), name |-> JStr("v")])}
      [] u = "RelationshipArgument" ->
           {JObj([type |-> JStr(RelationshipArgumentTypeLiteral), value |-> JStr("a")]),
            JObj([type |-> JStr(RelationshipArgumentTypeVariable), name |-> JStr("v")]),
            JObj([type |-> JStr(RelationshipArgumentTypeColumn), name |-> JStr("id")])}
      [] u = "MutationOperation" ->
           {JObj([type |-> JStr(MutationOperationProcedure), name |-> JStr("p"),
                  arguments |-> JObj([n |-> JNum("1")]), fields |-> f]) :
               f \in {JNull, JObj([c |-> JObj([type |-> JStr(FieldTypeColumn), column |-> JStr("id")])])}}

\* A JSON object without some of its members, and with members added.
Without(o, keys) == JObj([k \in DOMAIN o.v \ keys |-> o.v[k]])
With(o, keys, value) == JObj([k \in DOMAIN o.v \cup keys |-> IF k \in DOMAIN o.v THEN o.v[k] ELSE value])

\* The keys some payload of the union carries.
PayloadKeys(u) == UNION {DOMAIN p.v : p \in ValidPayloads(u)}

\* Sets of keys a valid payload does not carry: a key no variant knows
\* and the keys of the other variants.
ExtraKeySets(u, p) ==
    LET others == PayloadKeys(u) \ DOMAIN p.v IN
    {{}, {"zzz"}, others, others \cup {"zzz"}}

\* Values of "type" that are not a JSON string, and strings that are no
\* tag of any union.
NonStringTypes == {JNull, JNum("1"), JBool("true"), JArr(<<>>), JObj(<<>>)}
UnknownTypes == {JStr("bogus"), JStr(""), JStr("Named")}

\* The keys a decoder does not require.
OptionalKeys(u) == IF u = "MutationOperation" THEN {"fields"} ELSE {}

NoMutation == [kind |-> "none", key |-> "", sub |-> {}]

\* The payloads made from the valid payload p: p with keys added, p with
\* the discriminant removed or replaced, with one member removed, or with
\* members of one nested object removed.  Each is <<mutation, base, wire>>.
Mutations(u, p) ==
    {<<NoMutation, p, With(p, e, JNum("1"))>> : e \in ExtraKeySets(u, p)}
    \cup {<<[kind |-> "absent", key |-> "type", sub |-> {}], Without(p, {"type"}), Without(p, {"type"})>>}
    \cup {<<[kind |-> "nonstring", key |-> "type", sub |-> {}],
            JObj([p.v EXCEPT !["type"] = t]), JObj([p.v EXCEPT !["type"] = t])>> : t \in NonStringTypes}
    \cup {<<[kind |-> "unknown", key |-> "type", sub |-> {}],
            JObj([p.v EXCEPT !["type"] = t]), JObj([p.v EXCEPT !["type"] = t])>> : t \in UnknownTypes}
    \cup {<<[kind |-> "drop", key |-> k, sub |-> {}], Without(p, {k}), Without(p, {k})>> :
            k \in DOMAIN p.v \ {"type"}}
    \cup UNION {{<<[kind |-> "nested", key |-> k, sub |-> s],
                   JObj([p.v EXCEPT ![k] = Without(p.v[k], s)]),
                   JObj([p.v EXCEPT ![k] = Without(p.v[k], s)])>> :
                    s \in (SUBSET (DOMAIN p.v[k].v \ {"type"})) \ {{}}} :
                 k \in {kk \in DOMAIN p.v : p.v[kk].j = "object"}}

Payloads(u) == UNION {Mutations(u, p) : p \in ValidPayloads(u)}

\* The raw maps narrowing is tried on: the maps Encode builds, and those
\* maps with the discriminant removed or replaced by a string, by a value
\* of the enum type or by a value of another type.
RawMaps(u) ==
    LET encoded == {Encode(u, v) : v \in DecodableValues(u)} IN
    encoded
    \cup {[k \in DOMAIN j \ {"type"} |-> j[k]] : j \in encoded}
    \cup {[j EXCEPT !["type"] = t] :
            j \in encoded,
            t \in {GV("string", s) : s \in Tags(u) \cup {"bogus"}}
                  \cup {GV(EnumType(u), s) : s \in Tags(u) \cup {"bogus"}}
                  \cup {Nil, GV("float64", "1"), GV("bool", "true"), GV("ArgumentType", "literal")}}

----------------------------------------------------------------------------
(* Type method generation (cmd/ndc-go-sdk/connector.go).  Generated text   *)
(* is modelled as the list of its lines; a line is what it is (t) and the  *)
(* two names it is written with (a, b).  A map of Go is a function; a loop *)
(* over a map takes its keys in any order.                                 *)

\* The strings the model uses as map keys, in the order of sort.Strings.
Alphabet ==
    <<"A", "B", "S1", "S2", "X", "Y", "a", "a_b", "b", "f", "fmt", "functions", "g",
      "github.com/hasura/ndc-sdk-go/utils", "time", "types">>

Rank(s) == CHOOSE i \in 1..Len(Alphabet) : Alphabet[i] = s

\* The orders in which a range loop can visit the keys.
Orders(keys) == {s \in [1..Cardinality(keys) -> keys] : Range(s) = keys}

\* sort.Strings: insertion sort
RECURSIVE Insert(_, _)
Insert(sorted, key) ==
    IF sorted = <<>> THEN <<key>>
    ELSE IF Rank(key) < Rank(Head(sorted)) THEN <<key>> \o sorted
    ELSE <<Head(sorted)>> \o Insert(Tail(sorted), key)

RECURSIVE SortStrings(_)
SortStrings(s) ==
    IF s = <<>> THEN <<>> ELSE Insert(SortStrings(Tail(s)), Head(s))

\* One of the orders in which a range loop can visit the keys: the one
\* furthest from the sorted order.
AnOrder(keys) ==
    CHOOSE o \in Orders(keys) :
        \A i \in 1..Len(o) : \A k \in i..Len(o) : Rank(o[i]) >= Rank(o[k])

getSortedKeys(input) == SortStrings(AnOrder(DOMAIN input))

Line(t, a, b) == [t |-> t, a |-> a, b |-> b]

\* The map m with the key k set to v.
Put(m_, k, v) == [i \in DOMAIN m_ \cup {k} |-> IF i = k THEN v ELSE m_[i]]

\* genObjectToMap and the loop over its fields: lines so far, keys to go.
RECURSIVE genObjectToMap(_, _, _, _, _, _)
RECURSIVE genObjectFields(_, _, _, _, _, _)
genObjectFields(objects, object, selector, name, keys, lines) ==
    IF keys = <<>> THEN lines
    ELSE
    LET fieldKey == Head(keys)
        field == object.Fields[fieldKey]
        direct == Line("field", field.Key, selector \o "." \o field.Name)
        varName == name \o "_" \o fieldKey
    IN  genObjectFields(objects, object, selector, name, Tail(keys),
            IF field.Type.IsScalar THEN Append(lines, direct)
            ELSE IF field.Type.Name \notin DOMAIN objects THEN Append(lines, direct)
            ELSE IF ~objects[field.Type.Name].IsAnonymous
            THEN Append(lines,
                    Line(IF field.Type.IsArray
                         THEN (IF field.Type.IsNullable THEN "utils.EncodeNullableMaps"
                               ELSE "utils.EncodeMaps")
                         ELSE "utils.EncodeMap",
                         field.Key, selector \o "." \o field.Name))
            ELSE Append(genObjectToMap(objects, objects[field.Type.Name],
                                       selector \o "." \o field.Name, varName,
                                       field.Type.IsNullable, field.Type.IsArray)
                        \o lines,
                        Line("field", field.Key, varName)))

genObjectToMap(objects, object, selector, name, nullable, isArray) ==
    IF isArray
    THEN <<Line("var", name, "[]map[string]any")>>
         \o (IF nullable THEN <<Line("if", selector, "!= nil")>> ELSE <<>>)
         \o <<Line("make", name, IF nullable THEN "*" \o selector ELSE selector),
              Line("for", "_item", IF nullable THEN "*" \o selector ELSE selector)>>
         \o genObjectToMap(objects, object, "_item", "item", FALSE, FALSE)
         \o <<Line("item", name, "item"), Line("}", "", "")>>
         \o (IF nullable THEN <<Line("}", "", "")>> ELSE <<>>)
    ELSE genObjectFields(objects, object, selector, name, getSortedKeys(object.Fields),
             IF nullable
             THEN <<Line("var", name, "map[string]any"), Line("if", selector, "!= nil"),
                    Line("map", name, "=")>>
             ELSE <<Line("map", name, ":=")>>)
         \o <<Line("}", "", "")>>
         \o (IF nullable THEN <<Line("}", "", "")>> ELSE <<>>)

\* if err != nil { return err }
textBlockErrorCheck == <<Line("if err != nil", "return err", "")>>

\* ty.TypeAST.String(): the tokens of the type expression in one string
RECURSIVE String(_)
String(ast) == IF ast = <<>> THEN "" ELSE Head(ast) \o String(Tail(ast))

\* strings.Contains(typeName, word), for a word that is a token
strings_Contains(ast, word) == word \in Range(ast)

\* extractPackageAndTypeName: the package path in front of the last dot and
\* the type name behind the last slash; no package without a dot
extractPackageAndTypeName(ast) ==
    LET name == IF ast # <<>> /\ Head(ast) = "*" THEN Tail(ast) ELSE ast
        dots == {i \in 1..Len(name) : name[i] = "."}
        slashes == {i \in 1..Len(name) : name[i] = "/"}
        dot == CHOOSE i \in dots : \A k \in dots : k <= i
        slash == IF slashes = {} THEN 0 ELSE CHOOSE i \in slashes : \A k \in slashes : k <= i
    IN  IF dots = {} THEN <<"", String(name)>>
        ELSE <<String(SubSeq(name, 1, dot - 1)), String(SubSeq(name, slash + 1, Len(name)))>>

\* The decoder genGetTypeValueDecoder picks for a type name of its switch;
\* "" for the names of the default branch.
TypeValueDecoder(typeName) ==
    CASE typeName = "bool" -> "utils.GetBool"
      [] typeName = "*bool" -> "utils.GetNullableBool"
      [] typeName = "string" -> "utils.GetString"
      [] typeName = "*string" -> "utils.GetNullableString"
      [] typeName \in {"int", "int8", "int16", "int32", "int64", "rune", "byte"} -> "utils.GetInt"
      [] typeName \in {"uint", "uint8", "uint16", "uint32", "uint64"} -> "utils.GetUint"
      [] typeName \in {"*int", "*int8", "*int16", "*int32", "*int64", "*rune", "*byte"}
            -> "utils.GetNullableInt"
      [] typeName \in {"*uint", "*uint8", "*uint16", "*uint32", "*uint64"}
            -> "utils.GetNullableUint"
      [] typeName \in {"float32", "float64"} -> "utils.GetFloat"
      [] typeName \in {"*float32", "*float64"} -> "utils.GetNullableFloat"
      [] typeName = "time.Time" -> "utils.GetDateTime"
      [] typeName = "*time.Time" -> "utils.GetNullableDateTime"
      [] typeName = "time.Duration" -> "utils.GetDuration"
      [] typeName = "*time.Duration" -> "utils.GetNullableDuration"
      [] OTHER -> ""

\* strings.TrimPrefix(typeName, prefix), on the tokens of the type name
strings_TrimPrefix(ast, prefix) ==
    IF ast # <<>> /\ Head(ast) = prefix THEN Tail(ast) ELSE ast

\* The type argument genGetTypeValueDecoder instantiates the decoder with:
\* typeName, typeName without its "*", or none.
TypeArgument(ast) ==
    LET decoder == TypeValueDecoder(String(ast))
    IN  IF decoder \in {"utils.GetInt", "utils.GetUint", "utils.GetFloat"}
        THEN "[" \o String(ast) \o "]"
        ELSE IF decoder \in {"utils.GetNullableInt", "utils.GetNullableUint",
                             "utils.GetNullableFloat"}
        THEN "[" \o String(strings_TrimPrefix(ast, "*")) \o "]"
        ELSE ""

\* genGetTypeValueDecoder: the builder sb after the decoder of one argument
\* was written, or the panic
genGetTypeValueDecoder(sb, ty, key, fieldName) ==
    LET typeName == String(ty.TypeAST)
        pkgName == extractPackageAndTypeName(ty.TypeAST)[1]
    IN  IF strings_Contains(ty.TypeAST, "complex64") \/ strings_Contains(ty.TypeAST, "complex128")
        THEN [panic |-> TRUE, sb |-> sb]
        ELSE IF TypeValueDecoder(typeName) # ""
        THEN [panic |-> FALSE,
              sb |-> [sb EXCEPT !.builder =
                        @ \o <<Line(TypeValueDecoder(typeName) \o TypeArgument(ty.TypeAST),
                                     fieldName, key)>>
                          \o textBlockErrorCheck]]
        ELSE IF ty.IsNullable
        THEN [panic |-> FALSE,
              sb |-> [sb EXCEPT
                        !.imports = IF pkgName # "" THEN Put(@, pkgName, "") ELSE @,
                        !.builder =
                          @ \o <<Line("new", fieldName, extractPackageAndTypeName(ty.TypeAST)[2]),
                                 Line("utils.DecodeNullableObjectValue", fieldName, key)>>
                            \o textBlockErrorCheck]]
        ELSE [panic |-> FALSE,
              sb |-> [sb EXCEPT !.builder =
                        @ \o <<Line("utils.DecodeObjectValue", fieldName, key)>>
                          \o textBlockErrorCheck]]

\* getTypeBuilder: the builders with the one of the file made if missing
getTypeBuilder(builders, fileName, packageName) ==
    IF fileName \in DOMAIN builders THEN builders
    ELSE Put(builders, fileName,
             [packageName |-> packageName,
              imports |-> [p \in {"github.com/hasura/ndc-sdk-go/utils"} |-> ""],
              builder |-> <<>>])

\* The loop of genFunctionArgumentConstructors over the arguments of fn.
RECURSIVE genArgumentDecoders(_, _, _)
genArgumentDecoders(sb, fn, keys) ==
    IF keys = <<>> THEN [panic |-> FALSE, sb |-> sb]
    ELSE LET arg == fn.Arguments[Head(keys)]
             one == genGetTypeValueDecoder(sb, arg.Type, Head(keys), arg.FieldName)
         IN  IF one.panic THEN one ELSE genArgumentDecoders(one.sb, fn, Tail(keys))

\* genFunctionArgumentConstructors, fns the functions the loop has not
\* visited yet: the builders after it, or the panic
RECURSIVE genFunctionArgumentConstructors(_, _)
genFunctionArgumentConstructors(fns, builders) ==
    IF fns = <<>> THEN [panic |-> FALSE, typeBuilders |-> builders]
    ELSE
    LET fn == Head(fns)
        made == getTypeBuilder(builders, fn.PackageName, fn.PackageName)
        sb == [made[fn.PackageName] EXCEPT
                 !.builder = Append(@, Line("func FromValue", fn.ArgumentsType, ""))]
        decoders == genArgumentDecoders(sb, fn, getSortedKeys(fn.Arguments))
    IN  IF DOMAIN fn.Arguments = {}
        THEN genFunctionArgumentConstructors(Tail(fns), builders)
        ELSE IF decoders.panic THEN [panic |-> TRUE, typeBuilders |-> made]
        ELSE genFunctionArgumentConstructors(Tail(fns),
                 Put(made, fn.PackageName,
                     [decoders.sb EXCEPT !.builder = Append(@, Line("return nil", "", ""))]))

\* genObjectMethods without the check of IsAnonymous.
RECURSIVE genObjectMethods_Every(_, _, _)
genObjectMethods_Every(objects, objectKeys, builders) ==
    IF objectKeys = <<>> THEN builders
    ELSE
    LET objectName == Head(objectKeys)
        object == objects[objectName]
        made == getTypeBuilder(builders, object.PackageName, object.PackageName)
    IN  genObjectMethods_Every(objects, Tail(objectKeys),
                 Put(made, object.PackageName,
                     [made[object.PackageName] EXCEPT
                        !.builder = @ \o <<Line("func ToMap", objectName, "")>>
                                      \o genObjectToMap(objects, object, "j", "result", FALSE, FALSE)
                                      \o <<Line("return result", "", "")>>]))

\* genObjectMethods, objectKeys the sorted keys the loop has not visited
\* yet: the builders after it
RECURSIVE genObjectMethods(_, _, _)
genObjectMethods(objects, objectKeys, builders) ==
    IF objectKeys = <<>> THEN builders
    ELSE
    LET objectName == Head(objectKeys)
        object == objects[objectName]
        made == getTypeBuilder(builders, object.PackageName, object.PackageName)
    IN  IF object.IsAnonymous THEN genObjectMethods(objects, Tail(objectKeys), builders)
        ELSE genObjectMethods(objects, Tail(objectKeys),
                 Put(made, object.PackageName,
                     [made[object.PackageName] EXCEPT
                        !.builder = @ \o <<Line("func ToMap", objectName, "")>>
                                      \o genObjectToMap(objects, object, "j", "result", FALSE, FALSE)
                                      \o <<Line("return result", "", "")>>]))

\* genCustomScalarMethods, scalarKeys the sorted keys the loop has not
\* visited yet: the builders after it
RECURSIVE genCustomScalarMethods(_, _, _)
genCustomScalarMethods(scalars, scalarKeys, builders) ==
    IF scalarKeys = <<>> THEN builders
    ELSE
    LET scalar == scalars[Head(scalarKeys)]
        made == getTypeBuilder(builders, scalar.PackageName, scalar.PackageName)
    IN  genCustomScalarMethods(scalars, Tail(scalarKeys),
            Put(made, scalar.PackageName,
                [made[scalar.PackageName] EXCEPT
                   !.builder = Append(@, Line("func ScalarName", scalar.Name, scalar.SchemaName))]))

\* connectorTypeBuilder.String, the range loop visiting the imports in the
\* order given: the header, the import lines and the text of the builder
connectorTypeBuilder_String(ctb, order) ==
    <<Line("package", ctb.packageName, "")>>
    \o (IF DOMAIN ctb.imports # {}
        THEN [i \in 1..Len(order) |->
                 Line("import", IF ctb.imports[order[i]] # "" THEN ctb.imports[order[i]] \o " "
                                ELSE "", order[i])]
        ELSE <<>>)
    \o ctb.builder

----------------------------------------------------------------------------
(* Dispatch generation (cmd/ndc-go-sdk/connector.go).  The generated Go     *)
(* text is modelled as the list of its statements; a statement is what it  *)
(* does (op) and what it names (arg).                                      *)

Stmt(o, a) == [op |-> o, arg |-> a]

\* if err != nil { return nil, err }
textBlockErrorCheck2 == <<Stmt("checkErr", "return nil, err")>>

genGeneralOperationResult(resultType) ==
    textBlockErrorCheck2
    \o (IF resultType.IsNullable
        THEN <<Stmt("checkNil", "return nil, nil")>>
        ELSE <<Stmt("checkNil", "expected not null result")>>)

\* genConnectorFunctions with the selection check written after the
\* argument block instead of before it.
genFunctionCase_ArgumentsFirst(fn) ==
    LET argumentParamStr == IF fn.ArgumentsType # "" THEN ", &args" ELSE "" IN
    <<Stmt("case", fn.Name)>>
    \o (IF fn.ArgumentsType # ""
        THEN <<Stmt("resolveArguments", "utils.ResolveArgumentVariables"),
               Stmt("decodeArguments", "args.FromValue")>>
        ELSE <<>>)
    \o (IF fn.ResultType.IsScalar
        THEN <<Stmt("rejectFields", "request.Query.Fields")>>
        ELSE <<>>)
    \o (IF fn.ResultType.IsScalar
        THEN <<Stmt("returnCall", argumentParamStr)>>
        ELSE <<Stmt("callRaw", argumentParamStr)>>
             \o genGeneralOperationResult(fn.ResultType)
             \o (IF fn.ResultType.IsArray
                 THEN <<Stmt("encode", "utils.EncodeObjectsWithColumnSelection")>>
                 ELSE <<Stmt("encode", "utils.EncodeObjectWithColumnSelection")>>)
             \o textBlockErrorCheck2
             \o <<Stmt("returnResult", "return result, nil")>>)

\* The body of the loop of genConnectorFunctions: the case branch of one
\* function.
genFunctionCase(fn) ==
    LET argumentParamStr == IF fn.ArgumentsType # "" THEN ", &args" ELSE "" IN
    <<Stmt("case", fn.Name)>>
    \o (IF fn.ResultType.IsScalar
        THEN <<Stmt("rejectFields", "request.Query.Fields")>>
        ELSE <<>>)
    \o (IF fn.ArgumentsType # ""
        THEN <<Stmt("resolveArguments", "utils.ResolveArgumentVariables"),
               Stmt("decodeArguments", "args.FromValue")>>
        ELSE <<>>)
    \o (IF fn.ResultType.IsScalar
        THEN <<Stmt("returnCall", argumentParamStr)>>
        ELSE <<Stmt("callRaw", argumentParamStr)>>
             \o genGeneralOperationResult(fn.ResultType)
             \o (IF fn.ResultType.IsArray
                 THEN <<Stmt("encode", "utils.EncodeObjectsWithColumnSelection")>>
                 ELSE <<Stmt("encode", "utils.EncodeObjectWithColumnSelection")>>)
             \o textBlockErrorCheck2
             \o <<Stmt("returnResult", "return result, nil")>>)

\* genConnectorProcedures with argumentParamStr left empty.
genProcedureCase_ArgumentsDropped(fn) ==
    LET argumentParamStr == "" IN
    <<Stmt("case", fn.Name)>>
    \o (IF fn.ResultType.IsScalar
        THEN <<Stmt("rejectFields", "operation.Fields")>>
        ELSE IF fn.ResultType.IsArray
        THEN <<Stmt("selection", "operation.Fields.AsArray")>>
        ELSE <<Stmt("selection", "operation.Fields.AsObject")>>)
    \o (IF fn.ArgumentsType # ""
        THEN <<Stmt("decodeArguments", "json.Unmarshal")>>
        ELSE <<>>)
    \o (IF fn.ResultType.IsScalar
        THEN <<Stmt("callResult", argumentParamStr)>>
        ELSE <<Stmt("callRaw", argumentParamStr)>>
             \o genGeneralOperationResult(fn.ResultType)
             \o (IF fn.ResultType.IsArray
                 THEN <<Stmt("encode", "utils.EvalNestedColumnArrayIntoSlice")>>
                 ELSE <<Stmt("encode", "utils.EvalNestedColumnObject")>>))
    \o textBlockErrorCheck2

\* genConnectorProcedures narrowing every selection to the object form.
genProcedureCase_ObjectSelection(fn) ==
    LET argumentParamStr == IF fn.ArgumentsType # "" THEN ", &args" ELSE "" IN
    <<Stmt("case", fn.Name)>>
    \o (IF fn.ResultType.IsScalar
        THEN <<Stmt("rejectFields", "operation.Fields")>>
        ELSE <<Stmt("selection", "operation.Fields.AsObject")>>)
    \o (IF fn.ArgumentsType # ""
        THEN <<Stmt("decodeArguments", "json.Unmarshal")>>
        ELSE <<>>)
    \o (IF fn.ResultType.IsScalar
        THEN <<Stmt("callResult", argumentParamStr)>>
        ELSE <<Stmt("callRaw", argumentParamStr)>>
             \o genGeneralOperationResult(fn.ResultType)
             \o (IF fn.ResultType.IsArray
                 THEN <<Stmt("encode", "utils.EvalNestedColumnArrayIntoSlice")>>
                 ELSE <<Stmt("encode", "utils.EvalNestedColumnObject")>>))
    \o textBlockErrorCheck2

\* The body of the loop of genConnectorProcedures: the case branch of one
\* procedure.
genProcedureCase(fn) ==
    LET argumentParamStr == IF fn.ArgumentsType # "" THEN ", &args" ELSE "" IN
    <<Stmt("case", fn.Name)>>
    \o (IF fn.ResultType.IsScalar
        THEN <<Stmt("rejectFields", "operation.Fields")>>
        ELSE IF fn.ResultType.IsArray
        THEN <<Stmt("selection", "operation.Fields.AsArray")>>
        ELSE <<Stmt("selection", "operation.Fields.AsObject")>>)
    \o (IF fn.ArgumentsType # ""
        THEN <<Stmt("decodeArguments", "json.Unmarshal")>>
        ELSE <<>>)
    \o (IF fn.ResultType.IsScalar
        THEN <<Stmt("callResult", argumentParamStr)>>
        ELSE <<Stmt("callRaw", argumentParamStr)>>
             \o genGeneralOperationResult(fn.ResultType)
             \o (IF fn.ResultType.IsArray
                 THEN <<Stmt("encode", "utils.EvalNestedColumnArrayIntoSlice")>>
                 ELSE <<Stmt("encode", "utils.EvalNestedColumnObject")>>))
    \o textBlockErrorCheck2

\* What a strings.Builder holds after the pieces were written in order.
RECURSIVE Join(_)
Join(pieces) == IF pieces = <<>> THEN <<>> ELSE Head(pieces) \o Join(Tail(pieces))

genConnectorFunctions(schema) ==
    IF Len(schema.Functions) = 0 THEN <<>>
    ELSE Join([i \in 1..Len(schema.Functions) |-> genFunctionCase(schema.Functions[i])])

genConnectorProcedures(schema) ==
    IF Len(schema.Procedures) = 0 THEN <<>>
    ELSE Join([i \in 1..Len(schema.Procedures) |-> genProcedureCase(schema.Procedures[i])])

\* genConnectorCodeFromTemplate, the range loop visiting the imports in the
\* order given: what the template is executed with
genConnectorCodeFromTemplate(schema, order) ==
    [Imports |-> order,
     Queries |-> genConnectorFunctions(schema),
     Procedures |-> genConnectorProcedures(schema)]

----------------------------------------------------------------------------
(* Schemas, requests and responses of the dispatch *)

TypeInfos == [IsScalar : BOOLEAN, IsArray : BOOLEAN, IsNullable : BOOLEAN]

OperationNames == <<"op1", "op2">>

\* The operations a schema may hold at position i.
OperationInfos(i) ==
    {[Name |-> OperationNames[i], ResultType |-> t, ArgumentsType |-> a] :
        t \in TypeInfos, a \in {"", "Arguments"}}

OperationLists ==
    {<<>>} \cup {<<a>> : a \in OperationInfos(1)}
    \cup {<<a, b>> : a \in OperationInfos(1), b \in OperationInfos(2)}

NoSchema == [Imports |-> {}, Functions |-> <<>>, Procedures |-> <<>>]
NoCode == [Imports |-> <<>>, Queries |-> <<>>, Procedures |-> <<>>]

\* A request: the switch it goes to, the operation it names, how many
\* fields it selects (of a mutation: the members of operation.Fields), the
\* form of its selection set (of a mutation), whether its arguments resolve
\* and decode, and what the user function and the result encoding do with
\* it.  What the user
\* function would do is left open only for arguments that reach it: it
\* returns a plain error, an error it made with schema.BadRequestError, a
\* nil result, or a value the projection encodes or fails to encode.
Requests ==
    {r \in [kind : {"query", "mutation"}, name : {"op1", "op2"}, fields : 0..MaxFields,
            selection : {"none", "object", "array"}, arguments : {"ok", "unresolved", "invalid"},
            outcome : {"err", "badRequest", "nil", "value", "unencodable"}] :
        /\ r.arguments # "ok" => r.outcome = "value"
        /\ r.kind = "query" => r.selection = "none"
        /\ r.kind = "mutation" => (r.fields = 0 <=> r.selection = "none")}

NoRequest ==
    [kind |-> "", name |-> "", fields |-> 0, selection |-> "",
     arguments |-> "", outcome |-> ""]

\* What a branch returns, and what an error is: its class, its message and
\* its details ("nil", or "cause" for map[string]any{"cause": err.Error()}).
\* NoResponse is also the nil error.
Resp(s, msg, d) == [status |-> s, message |-> msg, details |-> d]
NoResponse == Resp("", "", "")
BadRequestError(msg, details) == Resp("BadRequest", msg, details)

\* The local variables of a branch: err, rawResult and result.
NoEnv == [err |-> NoResponse, rawResult |-> "", result |-> ""]

\* The statements of the switch the request goes to.
Program == IF request.kind = "query" THEN code.Queries ELSE code.Procedures

\* The operations that switch was generated from.
Operations == IF request.kind = "query" THEN rawSchema.Functions ELSE rawSchema.Procedures

WireIdle ==
    /\ src = "none" /\ union = "" /\ x = Nil /\ m = <<>>
    /\ base = JNull /\ wire = JNull /\ mut = NoMutation
    /\ dec = Err(NoErr) /\ acc = "" /\ nar = Err(NoErr) /\ m2 = <<>>
    /\ pc = "idle"

GenIdle ==
    /\ rawSchema = NoSchema /\ code = NoCode /\ request = NoRequest
    /\ ip = -1 /\ env = NoEnv /\ log = <<>> /\ response = NoResponse

NoState == [Database |-> <<>>]

RunIdle ==
    /\ state = NoState /\ typeBuilders = <<>> /\ files = <<>>
    /\ writer = <<>> /\ previous = <<>>

InitGen ==
    /\ WireIdle /\ RunIdle
    /\ \E ops \in OperationLists :
          rawSchema = [Imports |-> {}, Functions |-> ops, Procedures |-> ops]
    /\ code = NoCode
    /\ request \in Requests
    /\ ip = -1 /\ env = NoEnv /\ log = <<>> /\ response = NoResponse

\* connectorTemplate.Execute with the output of the two generators
Generate ==
    /\ ip = -1
    /\ \E order \in Orders(rawSchema.Imports) :
          code' = genConnectorCodeFromTemplate(rawSchema, order)
    /\ ip' = 0
    /\ UNCHANGED <<rawSchema, request, env, log, response>>
    /\ UNCHANGED <<wireVars, runVars>>

\* the switch on the operation name: the branch whose label is the name,
\* or the default branch of the template
Dispatch ==
    /\ ip = 0 /\ response = NoResponse
    /\ LET labels == {i \in 1..Len(Program) : Program[i] = Stmt("case", request.name)} IN
       IF labels = {}
       THEN /\ response' = Resp("default", request.name, "nil")
            /\ ip' = ip
       ELSE /\ ip' = (CHOOSE i \in labels : \A k \in labels : i <= k) + 1
            /\ response' = response
    /\ UNCHANGED <<rawSchema, code, request, env, log>>
    /\ UNCHANGED <<wireVars, runVars>>

\* The branch is at a statement of kind o.
At(o) ==
    /\ ip > 0 /\ response = NoResponse
    /\ ip <= Len(Program)
    /\ Program[ip].op = o

\* The statement ran and the branch goes on / returned r.
GoOn == ip' = ip + 1 /\ response' = response /\ log' = Append(log, Program[ip].op)
Return(r) == ip' = ip /\ response' = r /\ log' = Append(log, Program[ip].op)

\* if len(Fields) > 0 { return nil, schema.BadRequestError(...) }
ExecRejectFields ==
    /\ At("rejectFields")
    /\ IF request.fields > 0
       THEN Return(BadRequestError("cannot evaluate selection fields for scalar", "nil"))
       ELSE GoOn
    /\ UNCHANGED <<rawSchema, code, request, env>>
    /\ UNCHANGED <<wireVars, runVars>>

\* The form of selection set that the narrowing call accepts.
Narrowed(call) == IF call = "operation.Fields.AsArray" THEN "array" ELSE "object"

\* selection, err := operation.Fields.AsArray() / AsObject()
ExecSelection ==
    /\ At("selection")
    /\ IF request.selection # Narrowed(Program[ip].arg)
       THEN /\ Return(BadRequestError(IF Program[ip].arg = "operation.Fields.AsArray"
                                      THEN "the selection field type must be array"
                                      ELSE "the selection field type must be object",
                                      "cause"))
            /\ env' = [env EXCEPT !.err = Resp("error", "selection", "nil")]
       ELSE GoOn /\ env' = [env EXCEPT !.err = NoResponse]
    /\ UNCHANGED <<rawSchema, code, request>>
    /\ UNCHANGED <<wireVars, runVars>>

\* rawArgs, err := utils.ResolveArgumentVariables(request.Arguments, variables)
ExecResolveArguments ==
    /\ At("resolveArguments")
    /\ IF request.arguments = "unresolved"
       THEN /\ Return(BadRequestError("failed to resolve argument variables", "cause"))
            /\ env' = [env EXCEPT !.err = Resp("error", "variables", "nil")]
       ELSE GoOn /\ env' = [env EXCEPT !.err = NoResponse]
    /\ UNCHANGED <<rawSchema, code, request>>
    /\ UNCHANGED <<wireVars, runVars>>

\* args.FromValue(rawArgs) / json.Unmarshal(operation.Arguments, &args)
ExecDecodeArguments ==
    /\ At("decodeArguments")
    /\ IF request.arguments # "ok"
       THEN /\ Return(BadRequestError(IF Program[ip].arg = "json.Unmarshal"
                                      THEN "failed to decode arguments"
                                      ELSE "failed to resolve arguments", "cause"))
            /\ env' = [env EXCEPT !.err = Resp("error", "arguments", "nil")]
       ELSE GoOn /\ env' = [env EXCEPT !.err = NoResponse]
    /\ UNCHANGED <<rawSchema, code, request>>
    /\ UNCHANGED <<wireVars, runVars>>

\* What the user function returns for the request: (result, err).
UserFunction ==
    [err |-> IF request.outcome = "err" THEN Resp("error", "cause", "nil")
             ELSE IF request.outcome = "badRequest" THEN BadRequestError("cause", "nil")
             ELSE NoResponse,
     rawResult |-> IF request.outcome \in {"err", "badRequest", "nil"} THEN "nil" ELSE "value"]

\* return pkg.Fn(ctx, state, &args)
ExecReturnCall ==
    /\ At("returnCall")
    /\ env' = [env EXCEPT !.err = UserFunction.err, !.rawResult = UserFunction.rawResult]
    /\ Return(IF UserFunction.err # NoResponse THEN UserFunction.err
              ELSE Resp("ok", UserFunction.rawResult, "nil"))
    /\ UNCHANGED <<rawSchema, code, request>>
    /\ UNCHANGED <<wireVars, runVars>>

\* rawResult, err := pkg.Fn(ctx, state, &args)
ExecCallRaw ==
    /\ At("callRaw")
    /\ env' = [env EXCEPT !.err = UserFunction.err, !.rawResult = UserFunction.rawResult]
    /\ GoOn
    /\ UNCHANGED <<rawSchema, code, request>>
    /\ UNCHANGED <<wireVars, runVars>>

\* result, err = pkg.Fn(ctx, state, &args)
ExecCallResult ==
    /\ At("callResult")
    /\ env' = [env EXCEPT !.err = UserFunction.err, !.result = UserFunction.rawResult]
    /\ GoOn
    /\ UNCHANGED <<rawSchema, code, request>>
    /\ UNCHANGED <<wireVars, runVars>>

\* The error check returning a BadRequest error made of the message.
ExecCheckErr_Wrapping ==
    /\ At("checkErr")
    /\ IF env.err # NoResponse THEN Return(BadRequestError(env.err.message, "nil")) ELSE GoOn
    /\ UNCHANGED <<rawSchema, code, request, env>>
    /\ UNCHANGED <<wireVars, runVars>>

\* if err != nil { return nil, err }
ExecCheckErr ==
    /\ At("checkErr")
    /\ IF env.err # NoResponse THEN Return(env.err) ELSE GoOn
    /\ UNCHANGED <<rawSchema, code, request, env>>
    /\ UNCHANGED <<wireVars, runVars>>

\* if rawResult == nil { return nil, nil } / { return nil, BadRequestError }
ExecCheckNil ==
    /\ At("checkNil")
    /\ IF env.rawResult = "nil"
       THEN Return(IF Program[ip].arg = "return nil, nil"
                   THEN Resp("ok", "nil", "nil")
                   ELSE BadRequestError(Program[ip].arg, "nil"))
       ELSE GoOn
    /\ UNCHANGED <<rawSchema, code, request, env>>
    /\ UNCHANGED <<wireVars, runVars>>

\* result, err := utils.Encode...(fields, rawResult) / utils.EvalNested...
ExecEncode ==
    /\ At("encode")
    /\ env' = IF request.outcome = "unencodable"
              THEN [env EXCEPT !.err = Resp("error", "projection", "nil"), !.result = "nil"]
              ELSE [env EXCEPT !.err = NoResponse, !.result = "result"]
    /\ GoOn
    /\ UNCHANGED <<rawSchema, code, request>>
    /\ UNCHANGED <<wireVars, runVars>>

\* return result, nil
ExecReturnResult ==
    /\ At("returnResult")
    /\ Return(Resp("ok", env.result, "nil"))
    /\ UNCHANGED <<rawSchema, code, request, env>>
    /\ UNCHANGED <<wireVars, runVars>>

\* the branch of a procedure ends: control leaves the switch with result
EndOfCase ==
    /\ ip > 0 /\ response = NoResponse
    /\ IF ip > Len(Program) THEN TRUE ELSE Program[ip].op = "case"
    /\ response' = Resp("ok", env.result, "nil")
    /\ UNCHANGED <<rawSchema, code, request, ip, env, log>>
    /\ UNCHANGED <<wireVars, runVars>>

NextGen ==
    \/ Generate
    \/ Dispatch
    \/ ExecRejectFields
    \/ ExecSelection
    \/ ExecResolveArguments
    \/ ExecDecodeArguments
    \/ ExecReturnCall
    \/ ExecCallRaw
    \/ ExecCallResult
    \/ ExecCheckErr
    \/ ExecCheckNil
    \/ ExecEncode
    \/ ExecReturnResult
    \/ EndOfCase

SpecGen == InitGen /\ [][NextGen]_vars

----------------------------------------------------------------------------
(* connectorGenerator.generateConnector: the catalogues and the run *)

\* A TypeInfo: the name, the tokens of the Go type expression and the flags.
TypeInfo(name, ast, scalar, array, nullable) ==
    [Name |-> name, TypeAST |-> ast, IsScalar |-> scalar, IsArray |-> array,
     IsNullable |-> nullable]

\* The argument maps of a function or procedure: wire key -> argument.
ArgumentMaps ==
    {<<>>,
     [k \in {"a"} |-> [FieldName |-> "A", Type |-> TypeInfo("String", <<"string">>, TRUE, FALSE, FALSE)]],
     [k \in {"a"} |-> [FieldName |-> "A", Type |-> TypeInfo("Complex64", <<"complex64">>, TRUE, FALSE, FALSE)]],
     [k \in {"a", "b"} |->
        IF k = "b" THEN [FieldName |-> "B", Type |-> TypeInfo("Int", <<"*", "int">>, TRUE, FALSE, TRUE)]
        ELSE [FieldName |-> "A",
              Type |-> TypeInfo("B", <<"*", "types", ".", "B">>, FALSE, FALSE, TRUE)]]}

\* The results of a function or procedure.
ResultTypes ==
    {TypeInfo("String", <<"string">>, TRUE, FALSE, FALSE),
     TypeInfo("Complex128", <<"complex128">>, TRUE, FALSE, FALSE),
     TypeInfo("A", <<"[]", "A">>, FALSE, TRUE, FALSE)}

\* The function or procedure of the name and package given.
OperationsOf(name, package) ==
    {[Name |-> name, PackageName |-> package, Arguments |-> args,
      ArgumentsType |-> IF DOMAIN args = {} THEN "" ELSE "Arguments",
      ResultType |-> ty] : args \in ArgumentMaps, ty \in ResultTypes}

\* An object field of the key, the type and the object name given.
ObjectField(key, ty) == [Key |-> key, Name |-> key, Type |-> ty]

\* An object of the package given: anonymous or named, with its fields.
ObjectInfo(package, anonymous, fields) ==
    [PackageName |-> package, IsAnonymous |-> anonymous, Fields |-> fields]

\* The object registries: none; one named object; a named object with a
\* complex field; a named object holding an anonymous one, plain, nullable
\* or as an array, which holds a named one of another package; a named
\* object with the fields a and a_b, a holding an anonymous object, plain
\* or nullable, whose field b holds another anonymous object or an array
\* of it.
ObjectMaps ==
    LET string == TypeInfo("String", <<"string">>, TRUE, FALSE, FALSE)
        leaf(ty) == ObjectInfo("functions", FALSE, [k \in {"f"} |-> ObjectField("f", ty)])
        B == ObjectInfo("types", FALSE, [k \in {"g"} |-> ObjectField("g", string)])
        X == ObjectInfo("functions", TRUE,
                 [k \in {"f", "g"} |->
                    IF k = "f" THEN ObjectField("f", string)
                    ELSE ObjectField("g", TypeInfo("B", <<"[]", "types", ".", "B">>, FALSE, TRUE, FALSE))])
        outer(nullable, array) ==
            ObjectInfo("functions", FALSE,
                [k \in {"a", "f"} |->
                    IF k = "a" THEN ObjectField("a", string)
                    ELSE ObjectField("f", TypeInfo("X", <<"X">>, FALSE, array, nullable))])
    IN  {<<>>,
         [n \in {"A"} |-> leaf(string)],
         [n \in {"A"} |-> leaf(TypeInfo("Complex64", <<"complex64">>, TRUE, FALSE, FALSE))]}
        \cup {[n \in {"A", "B", "X"} |-> IF n = "A" THEN outer(nullable, array)
                                         ELSE IF n = "B" THEN B ELSE X] :
                 nullable \in BOOLEAN, array \in BOOLEAN}
        \cup {[n \in {"A", "X", "Y"} |->
                 IF n = "A"
                 THEN ObjectInfo("functions", FALSE,
                          [k \in {"a", "a_b"} |->
                              IF k = "a" THEN ObjectField("a", TypeInfo("X", <<"X">>, FALSE, FALSE, nullable))
                              ELSE ObjectField("a_b", TypeInfo("Y", <<"Y">>, FALSE, FALSE, FALSE))])
                 ELSE IF n = "X"
                 THEN ObjectInfo("functions", TRUE,
                          [k \in {"b"} |->
                              ObjectField("b", TypeInfo("Y", <<"Y">>, FALSE, array, FALSE))])
                 ELSE ObjectInfo("functions", TRUE,
                          [k \in {"f"} |-> ObjectField("f", string)])] :
                 nullable \in BOOLEAN, array \in BOOLEAN}

\* The custom scalar registries.
CustomScalarMaps ==
    {[n \in names |-> [Name |-> n, SchemaName |-> n,
                      PackageName |-> IF n = "S1" THEN "functions" ELSE "types"]] :
        names \in {{}, {"S1"}, {"S1", "S2"}}}

\* The functions and procedures of a catalogue: at most one operation.
RunOperations ==
    {[Functions |-> <<>>, Procedures |-> <<>>]}
    \cup {[Functions |-> <<fn>>, Procedures |-> <<>>] : fn \in OperationsOf("op1", "functions")}
    \cup {[Functions |-> <<>>, Procedures |-> <<fn>>] :
             fn \in {p \in OperationsOf("op2", "functions") :
                        /\ p.ResultType.IsScalar
                        /\ DOMAIN p.Arguments \subseteq {"a"}}}

\* The catalogues of a run.
RawConnectorSchemas ==
    {[Imports |-> imports, Functions |-> ops.Functions, Procedures |-> ops.Procedures,
      Objects |-> objects, CustomScalars |-> scalars] :
        imports \in {{}, {"fmt"}, {"fmt", "time"}},
        ops \in RunOperations,
        objects \in ObjectMaps,
        scalars \in CustomScalarMaps}

connectorOutputFile == "connector.generated.go"
schemaOutputFile == "schema.generated.json"
typeMethodsOutputFile == "types.generated.go"

\* The locals of generateConnector before its first statement: the position,
\* the error to return, whether a panic unwinds, the builders written and
\* the first call that failed.
RunEnv == [at |-> "start", err |-> NoResponse, panic |-> FALSE, written |-> {},
           failed |-> ""]

InitRun ==
    /\ WireIdle
    /\ rawSchema \in RawConnectorSchemas
    /\ code = NoCode /\ request = NoRequest /\ ip = -1
    /\ env = RunEnv /\ log = <<>> /\ response = NoResponse
    /\ state = NoState /\ typeBuilders = <<>> /\ files = <<>>
    /\ writer = <<>> /\ previous = <<>>

RunIdle_ == UNCHANGED <<wireVars, rawSchema, code, request, ip, state>>

\* return err before the writer exists
ReturnErr(step) ==
    /\ env' = [env EXCEPT !.at = "returned", !.err = Resp("error", step, "nil"),
                          !.failed = step]
    /\ response' = Resp("error", step, "nil")

\* json.MarshalIndent(cg.rawSchema.Schema()) and os.WriteFile(schemaPath)
WriteSchema ==
    /\ env.at = "start"
    /\ \E outcome \in {"ok", "json.MarshalIndent", "os.WriteFile"} :
          IF outcome = "ok"
          THEN /\ files' = Put(files, schemaOutputFile, <<Line("schema", "", "")>>)
               /\ env' = [env EXCEPT !.at = "os.Create"]
               /\ log' = Append(log, schemaOutputFile)
               /\ response' = response
          ELSE /\ ReturnErr(outcome)
               /\ UNCHANGED <<files, log>>
    /\ UNCHANGED <<typeBuilders, writer, previous>>
    /\ RunIdle_

\* os.Create(targetPath) and bufio.NewWriter(f), with the two defers
CreateConnectorFile ==
    /\ env.at = "os.Create"
    /\ \E ok \in BOOLEAN :
          IF ok
          THEN /\ files' = Put(files, connectorOutputFile, <<>>)
               /\ env' = [env EXCEPT !.at = "genConnectorCodeFromTemplate"]
               /\ log' = Append(log, "os.Create")
               /\ response' = response
          ELSE /\ ReturnErr("os.Create")
               /\ UNCHANGED <<files, log>>
    /\ writer' = <<>>
    /\ UNCHANGED <<typeBuilders, previous>>
    /\ RunIdle_

\* cg.genConnectorCodeFromTemplate(w): the template executed into the
\* buffered writer, or its error
GenConnectorCode ==
    /\ env.at = "genConnectorCodeFromTemplate"
    /\ \E order \in Orders(rawSchema.Imports), ok \in BOOLEAN :
          IF ok
          THEN /\ writer' = Append(writer, genConnectorCodeFromTemplate(rawSchema, order))
               /\ env' = [env EXCEPT !.at = "genFunctionArgumentConstructors"]
               /\ log' = Append(log, "connectorTemplate.Execute")
          ELSE /\ writer' = writer
               /\ env' = [env EXCEPT !.at = "defer",
                                     !.err = Resp("error", "connectorTemplate.Execute", "nil"),
                                     !.failed = "connectorTemplate.Execute"]
               /\ log' = log
    /\ UNCHANGED <<typeBuilders, files, previous, response>>
    /\ RunIdle_

\* cg.genFunctionArgumentConstructors(), the first call of genTypeMethods
GenFunctionArgumentConstructors ==
    /\ env.at = "genFunctionArgumentConstructors"
    /\ LET made == genFunctionArgumentConstructors(rawSchema.Functions, typeBuilders) IN
       IF made.panic
       THEN /\ env' = [env EXCEPT !.at = "defer", !.panic = TRUE,
                                  !.failed = "genFunctionArgumentConstructors"]
            /\ UNCHANGED <<typeBuilders, log>>
       ELSE /\ typeBuilders' = made.typeBuilders
            /\ env' = [env EXCEPT !.at = "genObjectMethods"]
            /\ log' = Append(log, "genFunctionArgumentConstructors")
    /\ UNCHANGED <<files, writer, previous, response>>
    /\ RunIdle_

\* cg.genObjectMethods()
GenObjectMethods ==
    /\ env.at = "genObjectMethods"
    /\ typeBuilders' = IF DOMAIN rawSchema.Objects = {} THEN typeBuilders
                       ELSE genObjectMethods(rawSchema.Objects,
                                getSortedKeys(rawSchema.Objects), typeBuilders)
    /\ env' = [env EXCEPT !.at = "genCustomScalarMethods"]
    /\ log' = Append(log, "genObjectMethods")
    /\ UNCHANGED <<files, writer, previous, response>>
    /\ RunIdle_

\* cg.genCustomScalarMethods()
GenCustomScalarMethods ==
    /\ env.at = "genCustomScalarMethods"
    /\ typeBuilders' = IF DOMAIN rawSchema.CustomScalars = {} THEN typeBuilders
                       ELSE genCustomScalarMethods(rawSchema.CustomScalars,
                                getSortedKeys(rawSchema.CustomScalars), typeBuilders)
    /\ env' = [env EXCEPT !.at = "typeBuilders"]
    /\ log' = Append(log, "genCustomScalarMethods")
    /\ UNCHANGED <<files, writer, previous, response>>
    /\ RunIdle_

\* One turn of the loop of genTypeMethods over cg.typeBuilders: a builder
\* not yet visited is written to its file; after the last one, return nil.
WriteTypeFile ==
    /\ env.at = "typeBuilders"
    /\ IF env.written = DOMAIN typeBuilders
       THEN /\ env' = [env EXCEPT !.at = "defer"]
            /\ UNCHANGED <<files, log>>
       ELSE \E folderPath \in DOMAIN typeBuilders \ env.written,
               ok \in BOOLEAN :
               \E order \in Orders(DOMAIN typeBuilders[folderPath].imports) :
                  IF ok
                  THEN /\ files' = Put(files, folderPath \o "/" \o typeMethodsOutputFile,
                                       connectorTypeBuilder_String(typeBuilders[folderPath], order))
                       /\ env' = [env EXCEPT !.written = @ \cup {folderPath}]
                       /\ log' = Append(log, folderPath \o "/" \o typeMethodsOutputFile)
                  ELSE /\ env' = [env EXCEPT !.at = "defer",
                                             !.err = Resp("error", "os.WriteFile", "nil"),
                                             !.failed = "os.WriteFile"]
                       /\ UNCHANGED <<files, log>>
    /\ UNCHANGED <<typeBuilders, writer, previous, response>>
    /\ RunIdle_

\* The deferred calls: _ = w.Flush() and _ = f.Close(); then the caller
\* has the error, or the panic goes on.
Deferred ==
    /\ env.at = "defer"
    /\ \E ok \in BOOLEAN :
          /\ files' = IF ok THEN Put(files, connectorOutputFile,
                                     files[connectorOutputFile] \o writer)
                      ELSE files
          /\ log' = IF ok THEN Append(log, "w.Flush") ELSE log
          /\ env' = [env EXCEPT !.at = IF env.panic THEN "panic" ELSE "returned",
                                !.failed = IF ok \/ env.failed # "" THEN @ ELSE "w.Flush"]
    /\ writer' = <<>>
    /\ response' = env.err
    /\ UNCHANGED <<typeBuilders, previous>>
    /\ RunIdle_

\* A second run over the same catalogue with a new generator, after a run
\* that returned nil.
Rerun ==
    /\ env.at = "returned" /\ response = NoResponse /\ previous = <<>>
    /\ previous' = files
    /\ typeBuilders' = <<>>
    /\ env' = RunEnv
    /\ log' = <<>>
    /\ UNCHANGED <<files, writer, response>>
    /\ RunIdle_

NextRun ==
    \/ WriteSchema
    \/ CreateConnectorFile
    \/ GenConnectorCode
    \/ GenFunctionArgumentConstructors
    \/ GenObjectMethods
    \/ GenCustomScalarMethods
    \/ WriteTypeFile
    \/ Deferred
    \/ Rerun

SpecRun == InitRun /\ [][NextRun]_vars

----------------------------------------------------------------------------
(* Connector.Query (the MySQL connector).  The database answers the SQL of *)
(* getFetchQuery with any result: columns, rows and at most one failure.   *)

\* The values a driver hands to Scan.
ColumnValues == {GV("[]byte", "a"), GV("int64", 1)}

\* The column lists and the rows of a result.
Columns == {<<"c1">>, <<"c1", "c2">>}

\* The lists of at most n rows of the columns cols.
RowLists(cols, n) == UNION {[1..k -> [1..Len(cols) -> ColumnValues]] : k \in 0..n}

\* The lists of at most n variable sets.
VariableSets(n) == UNION {[1..k -> {"variables"}] : k \in 0..n}

\* request.Variables: nil, or a list of variable sets.
QueryRequests ==
    {[Variables |-> Nil]}
    \cup {[Variables |-> GV("[]QueryRequestVariablesElem", vs)] : vs \in VariableSets(MaxVariables)}

\* The call that fails, if one does.
Failures == {"none", "Query", "Columns", "Scan", "Err"}

Databases ==
    {[failure |-> f, cols |-> c, rows |-> rs] :
        f \in Failures, c \in Columns, rs \in UNION {RowLists(cc, MaxRows) : cc \in Columns}}

\* The locals of Query before its first statement.
QueryEnv ==
    [at |-> "start", variableSets |-> <<>>, rowSets |-> <<>>, rows |-> "nil",
     rowSet |-> <<>>, cols |-> <<>>, next |-> 1]

\* What Query returns: (schema.QueryResponse, error).
QueryResult(rs, e) == [rowSets |-> rs, err |-> e]

InitQuery ==
    /\ WireIdle
    /\ rawSchema = NoSchema /\ code = NoCode /\ ip = -1 /\ log = <<>>
    /\ typeBuilders = <<>> /\ files = <<>> /\ writer = <<>> /\ previous = <<>>
    /\ request \in QueryRequests
    /\ \E db \in Databases :
          /\ \A i \in 1..Len(db.rows) : Len(db.rows[i]) = Len(db.cols)
          /\ state = [Database |-> db]
    /\ env = QueryEnv
    /\ response = QueryResult(<<>>, "")

QueryIdle == UNCHANGED <<wireVars, rawSchema, code, ip, request, state,
                         typeBuilders, files, writer, previous>>

\* variableSets, rowSets, getFetchQuery and state.Database.Query(sql)
QueryBegin ==
    /\ env.at = "start"
    /\ env' = [env EXCEPT
                 !.variableSets = IF request.Variables = Nil THEN <<"empty">>
                                  ELSE request.Variables.v,
                 !.rowSets = <<>>,
                 !.rows = IF state.Database.failure = "Query" THEN "nil" ELSE "rows",
                 !.rowSet = <<>>,
                 !.at = "Columns"]
    /\ log' = IF state.Database.failure = "Query"
              THEN Append(log, "Database query failed!") ELSE log
    /\ response' = response
    /\ QueryIdle

\* cols, err := rows.Columns(); on the nil rows of a failed query the call
\* dereferences nil.
QueryColumns ==
    /\ env.at = "Columns"
    /\ IF env.rows = "nil"
       THEN /\ env' = [env EXCEPT !.at = "panic"]
            /\ response' = response
       ELSE IF state.Database.failure = "Columns"
       THEN /\ env' = [env EXCEPT !.at = "returned"]
            /\ response' = QueryResult(<<>>, "Columns")
       ELSE /\ env' = [env EXCEPT !.cols = state.Database.cols, !.at = "Next"]
            /\ response' = response
    /\ log' = log
    /\ QueryIdle

\* The value stored in the row map for a scanned value.
RowValue(val) == IF GoType(val) = "[]byte" THEN GV("string", val.v) ELSE val

\* for rows.Next() { ... }: one row scanned and appended, or the end of the
\* loop
QueryNext ==
    /\ env.at = "Next"
    /\ IF env.next > Len(state.Database.rows)
       THEN /\ env' = [env EXCEPT !.at = "Err"]
            /\ response' = response
       ELSE IF state.Database.failure = "Scan" /\ env.next = Len(state.Database.rows)
       THEN /\ env' = [env EXCEPT !.at = "returned"]
            /\ response' = QueryResult(<<>>, "Scan")
       ELSE /\ env' = [env EXCEPT
                         !.rowSet = Append(env.rowSet,
                                       [i \in 1..Len(env.cols) |->
                                           <<env.cols[i],
                                             RowValue(state.Database.rows[env.next][i])>>]),
                         !.next = env.next + 1]
            /\ response' = response
    /\ log' = log
    /\ QueryIdle

\* rows.Err(), rowSets = append(rowSets, rowSet) and the return
QueryReturn ==
    /\ env.at = "Err"
    /\ IF state.Database.failure = "Err"
       THEN /\ env' = [env EXCEPT !.at = "returned"]
            /\ response' = QueryResult(<<>>, "Err")
       ELSE /\ env' = [env EXCEPT !.rowSets = Append(env.rowSets, env.rowSet),
                                  !.at = "returned"]
            /\ response' = QueryResult(Append(env.rowSets, env.rowSet), "nil")
    /\ log' = log
    /\ QueryIdle

NextQuery == QueryBegin \/ QueryColumns \/ QueryNext \/ QueryReturn

SpecQuery == InitQuery /\ [][NextQuery]_vars

\* C20: a query that returns without error returns one row set for each
\* variable set of the request, and one row set when request.Variables is
\* nil or empty.
OneRowSetPerVariableSet ==
    (env.at = "returned" /\ response.err = "nil") =>
        Len(response.rowSets) =
            IF request.Variables = Nil THEN 1
            ELSE IF Len(request.Variables.v) = 0 THEN 1
            ELSE Len(request.Variables.v)

----------------------------------------------------------------------------
(* connectorGenerator.genObjectToMap, call by call                          *)
(*                                                                         *)
(* The recursion of genObjectToMap as a stack of calls: a frame holds the  *)
(* arguments of a call, the field keys its loop has not visited, its lines *)
(* and where it stands.  One step is the entry of a call, one turn of the  *)
(* loop over the fields, or a return to the caller.                        *)

\* deepest stack of calls of genObjectToMap the runs may build
MaxCallDepth == 6

\* The types of the fields of the objects: a scalar, the named objects A
\* and B, plain, as a pointer or as a slice, and the anonymous object X.
FieldTypes(anonymous) ==
    {TypeInfo("String", <<"string">>, TRUE, FALSE, FALSE),
     TypeInfo("A", <<"A">>, FALSE, FALSE, FALSE),
     TypeInfo("A", <<"[]", "A">>, FALSE, TRUE, FALSE),
     TypeInfo("B", <<"*", "B">>, FALSE, FALSE, TRUE)}
    \cup (IF anonymous
          THEN {TypeInfo("X", <<"X">>, FALSE, FALSE, FALSE),
                TypeInfo("X", <<"*", "X">>, FALSE, FALSE, TRUE),
                TypeInfo("X", <<"[]", "X">>, FALSE, TRUE, FALSE),
                TypeInfo("X", <<"*", "[]", "X">>, FALSE, TRUE, TRUE)}
          ELSE {})

\* The object registries of the runs: the named objects A and B and the
\* anonymous object X.  A and B may hold themselves and each other; X, a
\* struct type without a name, may hold A and B and cannot hold itself.
ObjectGraphs ==
    {[n \in {"A", "B", "X"} |->
        IF n = "A"
        THEN ObjectInfo("functions", FALSE,
                 [k \in {"a", "b"} |-> ObjectField(k, IF k = "a" THEN ta ELSE tb)])
        ELSE IF n = "B"
        THEN ObjectInfo("functions", FALSE, [k \in {"f"} |-> ObjectField("f", tf)])
        ELSE ObjectInfo("functions", TRUE, [k \in {"g"} |-> ObjectField("g", tg)])] :
        ta \in FieldTypes(TRUE), tb \in FieldTypes(TRUE),
        tf \in FieldTypes(TRUE), tg \in FieldTypes(FALSE)}

\* The frame of the call genObjectToMap(object, selector, name, nullable,
\* isArray) before its first statement.
ToMapCall(objectName, selector, name, nullable, isArray) ==
    [object |-> objectName, selector |-> selector, name |-> name,
     nullable |-> nullable, isArray |-> isArray,
     fieldKeys |-> <<>>, lines |-> <<>>, at |-> "entry"]

\* innerObject, ok := cg.rawSchema.Objects[field.Type.Name] with ok and
\* innerObject.IsAnonymous, for every field: named objects included.
IsInlined_Named(objects, field) ==
    /\ ~field.Type.IsScalar
    /\ field.Type.Name \in DOMAIN objects

\* The field is expanded by a nested call of genObjectToMap.
IsInlined(objects, field) ==
    /\ ~field.Type.IsScalar
    /\ field.Type.Name \in DOMAIN objects
    /\ objects[field.Type.Name].IsAnonymous

\* The line of a field that is not expanded.
FieldLine(objects, field, selector) ==
    IF field.Type.IsScalar \/ field.Type.Name \notin DOMAIN objects
    THEN Line("field", field.Key, selector \o "." \o field.Name)
    ELSE Line(IF field.Type.IsArray
              THEN (IF field.Type.IsNullable THEN "utils.EncodeNullableMaps"
                    ELSE "utils.EncodeMaps")
              ELSE "utils.EncodeMap",
              field.Key, selector \o "." \o field.Name)

InitToMap ==
    /\ WireIdle
    /\ \E objects \in ObjectGraphs :
          rawSchema = [Imports |-> {}, Functions |-> <<>>, Procedures |-> <<>>,
                       Objects |-> objects, CustomScalars |-> <<>>]
    /\ code = NoCode /\ request = NoRequest /\ ip = -1
    /\ \E objectName \in {"A", "B"} :
          env = [at |-> "genObjectToMap",
                 stack |-> <<ToMapCall(objectName, "j", "result", FALSE, FALSE)>>]
    /\ log = <<>> /\ response = NoResponse
    /\ state = NoState /\ typeBuilders = <<>> /\ files = <<>>
    /\ writer = <<>> /\ previous = <<>>

ToMapIdle == UNCHANGED <<wireVars, rawSchema, code, request, ip, state,
                         typeBuilders, files, previous, response>>

\* The stack with its innermost frame replaced, and with a call on top.
Replaced(stack, frame) == [stack EXCEPT ![Len(stack)] = frame]
Calling(stack, frame, call) == Append(Replaced(stack, frame), call)

\* The first statements of a call: the lines before the loop. A call for
\* an array calls itself for the item of the range loop.
ToMapEntry ==
    /\ env.at = "genObjectToMap"
    /\ LET stack == env.stack
           top == stack[Len(stack)]
           selector == IF top.nullable THEN "*" \o top.selector ELSE top.selector
       IN  /\ top.at = "entry"
           /\ IF top.isArray
              THEN /\ Len(stack) < MaxCallDepth
                   /\ env' = [env EXCEPT !.stack =
                         Calling(stack,
                             [top EXCEPT
                                !.lines = <<Line("var", top.name, "[]map[string]any")>>
                                          \o (IF top.nullable
                                              THEN <<Line("if", top.selector, "!= nil")>>
                                              ELSE <<>>)
                                          \o <<Line("make", top.name, selector),
                                               Line("for", "_item", selector)>>,
                                !.at = "loop"],
                             ToMapCall(top.object, "_item", "item", FALSE, FALSE))]
              ELSE env' = [env EXCEPT !.stack =
                         Replaced(stack,
                             [top EXCEPT
                                !.fieldKeys = getSortedKeys(rawSchema.Objects[top.object].Fields),
                                !.lines = IF top.nullable
                                          THEN <<Line("var", top.name, "map[string]any"),
                                                 Line("if", top.selector, "!= nil"),
                                                 Line("map", top.name, "=")>>
                                          ELSE <<Line("map", top.name, ":=")>>,
                                !.at = "fields"])]
           /\ log' = Append(log, top.object)
    /\ writer' = writer
    /\ ToMapIdle

\* One turn of the loop over fieldKeys: the line of the field, or the call
\* that expands it; after the last field, the closing lines.
ToMapField ==
    /\ env.at = "genObjectToMap"
    /\ LET stack == env.stack
           top == stack[Len(stack)]
           object == rawSchema.Objects[top.object]
       IN  /\ top.at = "fields"
           /\ IF top.fieldKeys = <<>>
              THEN env' = [env EXCEPT !.stack =
                         Replaced(stack,
                             [top EXCEPT
                                !.lines = @ \o <<Line("}", "", "")>>
                                            \o (IF top.nullable THEN <<Line("}", "", "")>>
                                                ELSE <<>>),
                                !.at = "return"])]
              ELSE LET fieldKey == Head(top.fieldKeys)
                       field == object.Fields[fieldKey]
                   IN  IF IsInlined(rawSchema.Objects, field)
                       THEN /\ Len(stack) < MaxCallDepth
                            /\ env' = [env EXCEPT !.stack =
                                  Calling(stack, [top EXCEPT !.at = "call"],
                                      ToMapCall(field.Type.Name,
                                          top.selector \o "." \o field.Name,
                                          top.name \o "_" \o fieldKey,
                                          field.Type.IsNullable, field.Type.IsArray))]
                       ELSE env' = [env EXCEPT !.stack =
                                  Replaced(stack,
                                      [top EXCEPT
                                         !.lines = Append(@, FieldLine(rawSchema.Objects, field,
                                                                       top.selector)),
                                         !.fieldKeys = Tail(@)])]
    /\ UNCHANGED <<log, writer>>
    /\ ToMapIdle

\* return lines: to the loop of the caller, to the caller's range loop, or
\* to genObjectMethods.
ToMapReturn ==
    /\ env.at = "genObjectToMap"
    /\ LET stack == env.stack
           top == stack[Len(stack)]
       IN  /\ top.at = "return"
           /\ IF Len(stack) = 1
              THEN /\ env' = [env EXCEPT !.stack = <<>>, !.at = "returned"]
                   /\ writer' = top.lines
              ELSE LET caller == stack[Len(stack) - 1]
                       rest == SubSeq(stack, 1, Len(stack) - 1)
                   IN  /\ writer' = writer
                       /\ IF caller.at = "loop"
                          THEN env' = [env EXCEPT !.stack =
                                  Replaced(rest,
                                      [caller EXCEPT
                                         !.lines = @ \o top.lines
                                                     \o <<Line("item", caller.name, "item"),
                                                          Line("}", "", "")>>
                                                     \o (IF caller.nullable
                                                         THEN <<Line("}", "", "")>> ELSE <<>>),
                                         !.at = "return"])]
                          ELSE LET fieldKey == Head(caller.fieldKeys)
                                   field == rawSchema.Objects[caller.object].Fields[fieldKey]
                               IN  env' = [env EXCEPT !.stack =
                                      Replaced(rest,
                                          [caller EXCEPT
                                             !.lines = Append(top.lines \o @,
                                                          Line("field", field.Key, top.name)),
                                             !.fieldKeys = Tail(@),
                                             !.at = "fields"])]
    /\ log' = log
    /\ ToMapIdle

NextToMap == ToMapEntry \/ ToMapField \/ ToMapReturn

\* The generator is one sequential program: it takes its next step.
SpecToMap == InitToMap /\ [][NextToMap]_vars /\ WF_vars(NextToMap)

----------------------------------------------------------------------------
(* The decoder of one argument: generated, then run                         *)
(*                                                                         *)
(* genGetTypeValueDecoder writes the decoder of one argument of a FromValue *)
(* method; the method then runs on an input map in which the key is        *)
(* absent, null or a value.  The helpers of the utils package are outside  *)
(* the sources: a Get or DecodeObjectValue call fails on an absent or null *)
(* key, a GetNullable call gives nil for it, DecodeNullableObjectValue     *)
(* leaves its target as it is.                                             *)

\* The type names of the switch of genGetTypeValueDecoder without "*".
SignedNames == {"int", "int8", "int16", "int32", "int64", "rune"}
UnsignedNames == {"uint", "uint8", "uint16", "uint32", "uint64", "byte"}
FloatNames == {"float32", "float64"}

\* The tokens of the type names of the arguments: the names of the switch,
\* object, slice and custom scalar types, complex numbers; each plainly and
\* as a pointer.
ArgumentTypeASTs ==
    LET plain == {<<n>> : n \in {"bool", "string"} \cup SignedNames \cup UnsignedNames
                                 \cup FloatNames \cup {"A", "complex64"}}
                 \cup {<<"time", ".", "Time">>, <<"time", ".", "Duration">>,
                       <<"types", ".", "B">>, <<"[]", "A">>, <<"[]", "string">>,
                       <<"map[string]any">>}
    IN  plain \cup {<<"*">> \o ast : ast \in plain}

\* The TypeInfo of an argument of the type name given.
ArgumentTypeInfo(ast) ==
    LET name == strings_TrimPrefix(ast, "*")
    IN  TypeInfo(String(name), ast,
                 name[1] \notin {"A", "[]", "map[string]any"},
                 name[1] = "[]", ast[1] = "*")

\* The field of the arguments struct before FromValue runs: the zero value
\* of its type.
ZeroField(ty) == IF ty.IsNullable THEN "nil" ELSE "zero"

\* The nullable decoders of the utils package, with their type arguments.
NullableDecoders ==
    {"utils.GetNullableBool", "utils.GetNullableString", "utils.GetNullableDateTime",
     "utils.GetNullableDuration"}
    \cup {"utils.GetNullableInt[" \o n \o "]" : n \in SignedNames \cup UnsignedNames}
    \cup {"utils.GetNullableUint[" \o n \o "]" : n \in SignedNames \cup UnsignedNames}
    \cup {"utils.GetNullableFloat[" \o n \o "]" : n \in FloatNames}

\* The body of the generated FromValue for one argument, run on the input:
\* the field j.<fieldName> and the error after the lines given.
RECURSIVE FromValue(_, _, _)
FromValue(lines, input, local) ==
    IF lines = <<>> THEN local
    ELSE
    LET l == Head(lines)
        missing == input \in {"absent", "null"}
    IN  CASE l.t = "new" ->
                FromValue(Tail(lines), input, [local EXCEPT !.field = "&zero"])
          [] l.t = "utils.DecodeNullableObjectValue" ->
                FromValue(Tail(lines), input,
                    IF missing THEN local ELSE [local EXCEPT !.field = "&value"])
          [] l.t = "utils.DecodeObjectValue" ->
                FromValue(Tail(lines), input,
                    IF missing THEN [local EXCEPT !.err = "required"]
                    ELSE [local EXCEPT !.field = "value"])
          [] l.t \in NullableDecoders ->
                FromValue(Tail(lines), input,
                    [local EXCEPT !.field = IF missing THEN "nil" ELSE "&value"])
          [] l.t = "if err != nil" ->
                IF local.err # "nil" THEN local ELSE FromValue(Tail(lines), input, local)
          [] OTHER ->
                FromValue(Tail(lines), input,
                    IF missing THEN [local EXCEPT !.field = "zero", !.err = "required"]
                    ELSE [local EXCEPT !.field = "value"])

InitFromValue ==
    /\ WireIdle
    /\ rawSchema = NoSchema /\ code = NoCode /\ ip = -1
    /\ \E ast \in ArgumentTypeASTs, input \in {"absent", "null", "value"} :
          request = [Type |-> ArgumentTypeInfo(ast), key |-> "a", FieldName |-> "A",
                     input |-> input]
    /\ env = [at |-> "genGetTypeValueDecoder", field |-> "", err |-> "nil"]
    /\ log = <<>> /\ response = NoResponse
    /\ state = NoState /\ typeBuilders = <<>> /\ files = <<>>
    /\ writer = <<>> /\ previous = <<>>

FromValueIdle == UNCHANGED <<wireVars, rawSchema, code, request, ip, state,
                             files, writer, previous, response>>

\* cg.genGetTypeValueDecoder(sb, arg.Type, key, arg.FieldName) on the
\* builder of the package
GenDecoder ==
    /\ env.at = "genGetTypeValueDecoder"
    /\ LET builders == getTypeBuilder(<<>>, "functions", "functions")
           made == genGetTypeValueDecoder(builders["functions"], request.Type,
                                          request.key, request.FieldName)
       IN  /\ typeBuilders' = Put(builders, "functions", made.sb)
           /\ env' = [env EXCEPT !.at = IF made.panic THEN "panic" ELSE "FromValue",
                                 !.field = ZeroField(request.Type)]
    /\ log' = Append(log, "genGetTypeValueDecoder")
    /\ FromValueIdle

\* args.FromValue(rawArgs): the generated lines run on the input map
RunFromValue ==
    /\ env.at = "FromValue"
    /\ LET local == FromValue(typeBuilders["functions"].builder, request.input,
                              [field |-> env.field, err |-> "nil"])
       IN  env' = [env EXCEPT !.at = "returned", !.field = local.field, !.err = local.err]
    /\ log' = Append(log, "FromValue")
    /\ typeBuilders' = typeBuilders
    /\ FromValueIdle

NextFromValue == GenDecoder \/ RunFromValue

SpecFromValue == InitFromValue /\ [][NextFromValue]_vars

----------------------------------------------------------------------------
(* visitExpression, call by call                                            *)
(*                                                                         *)
(* The recursion of visitExpression and visitLogicalExpression as a stack  *)
(* of calls over a decoded predicate.  The goroutine stack is finite: a    *)
(* call beyond MaxVisitDepth is the fatal stack overflow of the runtime.   *)
(* The text of a comparison value is the placeholder '?'.                  *)

\* the calls of visitExpression the goroutine stack has room for
MaxVisitDepth == 5

\* The predicates of the requests: the decoded Expression maps.
Predicates == ExpressionMaps(MaxExprDepth)

\* The frame of the call visitExpression(expression) before its first
\* statement.
VisitCall(expression) ==
    [expression |-> expression, at |-> "entry", operator |-> "",
     subExpressions |-> <<>>, clauses |-> <<>>, result |-> ""]

\* strings.Join(clauses, sep)
RECURSIVE strings_Join(_, _)
strings_Join(clauses, sep) ==
    IF clauses = <<>> THEN ""
    ELSE IF Len(clauses) = 1 THEN clauses[1]
    ELSE clauses[1] \o sep \o strings_Join(Tail(clauses), sep)

\* visitUnaryComparison(expression)
visitUnaryComparison(expression) ==
    expression["column"].v.Name \o " " \o expression["operator"].v

\* visitBinaryComparison(expression): the operator held by the map is a
\* BinaryComparisonOperator, which none of the string cases of the switch
\* equals, so the clause is empty.
visitBinaryComparison(expression) ==
    expression["column"].v.Name \o " " \o "" \o " " \o "'?'"

\* The sub-expression visitExpression descends to for a 'not': the
\* expression it was called with.
NotOperand(expression) == expression

InitVisit ==
    /\ WireIdle
    /\ rawSchema = NoSchema /\ code = NoCode /\ ip = -1
    /\ \E expression \in Predicates :
          /\ request = [Predicate |-> expression]
          /\ env = [at |-> "visitExpression", stack |-> <<VisitCall(expression)>>]
    /\ log = <<>> /\ response = NoResponse
    /\ state = NoState /\ typeBuilders = <<>> /\ files = <<>>
    /\ writer = <<>> /\ previous = <<>>

VisitIdle == UNCHANGED <<wireVars, rawSchema, code, request, ip, state,
                         typeBuilders, files, writer, previous>>

\* The call of visitExpression(expression) from the innermost frame, left
\* at the position given; without room on the stack, the overflow.
Visiting(frame, expression) ==
    IF Len(env.stack) < MaxVisitDepth
    THEN env' = [env EXCEPT !.stack = Calling(env.stack, frame, VisitCall(expression))]
    ELSE env' = [env EXCEPT !.at = "stack overflow"]

\* expression.Type() and the switch of visitExpression
VisitEntry ==
    /\ env.at = "visitExpression"
    /\ LET top == env.stack[Len(env.stack)]
           expressionType == Expression_Type(top.expression).val
           returning(text) ==
               env' = [env EXCEPT !.stack =
                         Replaced(env.stack, [top EXCEPT !.result = text, !.at = "return"])]
       IN  /\ top.at = "entry"
           /\ CASE expressionType \in {ExpressionTypeAnd, ExpressionTypeOr} ->
                     env' = [env EXCEPT !.stack =
                               Replaced(env.stack,
                                   [top EXCEPT
                                      !.operator = IF expressionType = ExpressionTypeAnd
                                                   THEN "AND" ELSE "OR",
                                      !.subExpressions = top.expression["expressions"].v,
                                      !.at = "range"])]
                [] expressionType = ExpressionTypeNot ->
                     Visiting([top EXCEPT !.at = "not"], NotOperand(top.expression))
                [] expressionType = ExpressionTypeUnaryComparisonOperator ->
                     returning(visitUnaryComparison(top.expression))
                [] expressionType = ExpressionTypeBinaryComparisonOperator ->
                     returning(visitBinaryComparison(top.expression))
                [] OTHER -> returning("")
    /\ UNCHANGED <<log, response>>
    /\ VisitIdle

\* One turn of the range loop of visitLogicalExpression, or its return
\* after the last sub-expression.
VisitRange ==
    /\ env.at = "visitExpression"
    /\ LET top == env.stack[Len(env.stack)]
       IN  /\ top.at = "range"
           /\ IF top.subExpressions = <<>>
              THEN env' = [env EXCEPT !.stack =
                             Replaced(env.stack,
                                 [top EXCEPT
                                    !.result = "(" \o strings_Join(top.clauses,
                                                         " " \o top.operator \o " ") \o ")",
                                    !.at = "return"])]
              ELSE Visiting([top EXCEPT !.at = "append"], Head(top.subExpressions))
    /\ UNCHANGED <<log, response>>
    /\ VisitIdle

\* The return of a call: to the range loop, to the 'not' case, or to
\* getFetchQuery.
VisitReturn ==
    /\ env.at = "visitExpression"
    /\ LET stack == env.stack
           top == stack[Len(stack)]
       IN  /\ top.at = "return"
           /\ log' = Append(log, [expression |-> top.expression, result |-> top.result])
           /\ IF Len(stack) = 1
              THEN /\ env' = [env EXCEPT !.stack = <<>>, !.at = "returned"]
                   /\ response' = Resp("ok", top.result, "nil")
              ELSE LET caller == stack[Len(stack) - 1]
                       rest == SubSeq(stack, 1, Len(stack) - 1)
                   IN  /\ response' = response
                       /\ IF caller.at = "append"
                          THEN env' = [env EXCEPT !.stack =
                                  Replaced(rest,
                                      [caller EXCEPT
                                         !.clauses = Append(@, top.result),
                                         !.subExpressions = Tail(@),
                                         !.at = "range"])]
                          ELSE env' = [env EXCEPT !.stack =
                                  Replaced(rest,
                                      [caller EXCEPT
                                         !.result = "NOT " \o top.result,
                                         !.at = "return"])]
    /\ VisitIdle

NextVisit == VisitEntry \/ VisitRange \/ VisitReturn

SpecVisit == InitVisit /\ [][NextVisit]_vars

----------------------------------------------------------------------------
(* parseAndGenerateConnector and the paths of the artifacts *)

\* A slash-separated path: whether it starts at the root, and its elements.
Path(abs, parts) == [abs |-> abs, parts |-> parts]

\* path.Clean over the elements: "." goes, ".." takes the element before it
\* away, is dropped at the root and is kept at the front of a relative path.
RECURSIVE path_Clean(_, _, _)
path_Clean(abs, done, todo) ==
    IF todo = <<>> THEN Path(abs, done)
    ELSE LET e == Head(todo)
             rest == Tail(todo) IN
         CASE e = "." -> path_Clean(abs, done, rest)
           [] e = ".." /\ done # <<>> /\ done[Len(done)] # ".." ->
                path_Clean(abs, SubSeq(done, 1, Len(done) - 1), rest)
           [] e = ".." /\ abs -> path_Clean(abs, done, rest)
           [] OTHER -> path_Clean(abs, Append(done, e), rest)

\* path.Join(a, b): the elements joined with slashes, then cleaned.
path_Join(a, b) == path_Clean(a.abs, <<>>, a.parts \o b.parts)

\* The directory or file a path names for a process whose working
\* directory is cwd: its elements from the root.
Resolve(cwd, p) ==
    IF p.abs THEN path_Clean(TRUE, <<>>, p.parts).parts
    ELSE path_Clean(TRUE, <<>>, cwd \o p.parts).parts

\* Directory trees the generator is run in: a module at /w/example with two
\* packages; the same with a directory example/functions inside the module;
\* a module at /w next to it.
ModuleTree ==
    {<<>>, <<"w">>, <<"w", "example">>, <<"w", "example", "functions">>,
     <<"w", "example", "types">>}
DirectoryTrees ==
    {ModuleTree,
     ModuleTree \cup {<<"w", "example", "example">>,
                      <<"w", "example", "example", "functions">>},
     ModuleTree \cup {<<"w", "functions">>, <<"w", "types">>}}
WorkingDirectories == {<<>>, <<"w">>, <<"w", "example">>}

\* The values of the --path flag: '.', relative and absolute directories
\* and one that does not exist.
BasePaths ==
    {Path(FALSE, <<".">>), Path(FALSE, <<"example">>),
     Path(FALSE, <<"w", "example">>), Path(FALSE, <<"..">>),
     Path(TRUE, <<"w", "example">>), Path(TRUE, <<"w">>),
     Path(FALSE, <<"missing">>)}

\* The package names a catalogue can hold.
PackageNames == {"functions", "types"}

InitPaths ==
    /\ WireIdle
    /\ rawSchema = NoSchema /\ code = NoCode /\ ip = -1
    /\ \E basePath \in BasePaths, cwd \in WorkingDirectories,
          dirs \in DirectoryTrees :
          /\ cwd \in dirs
          /\ request = [basePath |-> basePath, cwd |-> cwd]
          /\ env = [at |-> "os.Chdir", cwd |-> cwd, failed |-> ""]
          /\ state = [Directories |-> dirs]
    /\ log = <<>> /\ response = NoResponse
    /\ typeBuilders = <<>> /\ files = <<>>
    /\ writer = <<>> /\ previous = <<>>

PathsIdle == UNCHANGED <<wireVars, rawSchema, code, request, ip, state,
                         log, writer, previous>>

\* return err
PathErr(step) ==
    /\ env' = [env EXCEPT !.at = "returned", !.failed = step]
    /\ response' = Resp("error", step, "nil")

\* os.WriteFile and os.Create: the file exists afterwards when its directory
\* does, and the call fails otherwise.
WriteAt(p, content, next) ==
    LET target == Resolve(env.cwd, p) IN
    IF Len(target) > 0 /\ SubSeq(target, 1, Len(target) - 1) \in state.Directories
    THEN /\ files' = Put(files, target, content)
         /\ env' = [env EXCEPT !.at = next]
         /\ response' = response
    ELSE /\ PathErr(content)
         /\ files' = files

\* os.Chdir(basePath)
Chdir ==
    /\ env.at = "os.Chdir"
    /\ LET target == Resolve(env.cwd, request.basePath) IN
       IF target \in state.Directories
       THEN /\ env' = [env EXCEPT !.at = "parse", !.cwd = target]
            /\ response' = response
       ELSE PathErr("os.Chdir")
    /\ UNCHANGED <<typeBuilders, files>>
    /\ PathsIdle

\* parseRawConnectorSchemaFromGoCode(moduleName, ".", directories), then the
\* builders getTypeBuilder makes, one per package of the catalogue: the
\* packages are directories of the working directory.
ParseDirectories ==
    /\ env.at = "parse"
    /\ \/ /\ \E packages \in SUBSET {p \in PackageNames :
                                        Append(env.cwd, p) \in state.Directories} :
                typeBuilders' = [p \in packages |-> <<>>]
          /\ env' = [env EXCEPT !.at = schemaOutputFile]
          /\ response' = response
       \/ /\ PathErr("parse")
          /\ typeBuilders' = typeBuilders
    /\ files' = files
    /\ PathsIdle

\* os.WriteFile(path.Join(srcPath, schemaOutputFile)) with srcPath = "."
WriteSchemaAt ==
    /\ env.at = schemaOutputFile
    /\ WriteAt(path_Join(Path(FALSE, <<".">>), Path(FALSE, <<schemaOutputFile>>)),
               schemaOutputFile, connectorOutputFile)
    /\ typeBuilders' = typeBuilders
    /\ PathsIdle

\* os.Create(path.Join(srcPath, connectorOutputFile)) with srcPath = "."
CreateConnectorAt ==
    /\ env.at = connectorOutputFile
    /\ WriteAt(path_Join(Path(FALSE, <<".">>), Path(FALSE, <<connectorOutputFile>>)),
               connectorOutputFile, typeMethodsOutputFile)
    /\ typeBuilders' = typeBuilders
    /\ PathsIdle

\* The path genTypeMethods writes the builder of folderPath to.
TypeMethodsPath(basePath, folderPath) ==
    path_Join(path_Join(basePath, Path(FALSE, <<folderPath>>)),
              Path(FALSE, <<typeMethodsOutputFile>>))

\* One turn of the loop of genTypeMethods over cg.typeBuilders, in the
\* order the map gives.
WriteTypeMethodsAt ==
    /\ env.at = typeMethodsOutputFile
    /\ \E folderPath \in DOMAIN typeBuilders :
          /\ typeBuilders[folderPath] = <<>>
          /\ WriteAt(TypeMethodsPath(request.basePath, folderPath),
                     typeMethodsOutputFile, typeMethodsOutputFile)
          /\ typeBuilders' = [typeBuilders EXCEPT ![folderPath] = <<typeMethodsOutputFile>>]
    /\ PathsIdle

\* return nil after the last builder
ReturnGenerated ==
    /\ env.at = typeMethodsOutputFile
    /\ \A folderPath \in DOMAIN typeBuilders : typeBuilders[folderPath] # <<>>
    /\ env' = [env EXCEPT !.at = "returned"]
    /\ UNCHANGED <<typeBuilders, files, response>>
    /\ PathsIdle

NextPaths ==
    \/ Chdir
    \/ ParseDirectories
    \/ WriteSchemaAt
    \/ CreateConnectorAt
    \/ WriteTypeMethodsAt
    \/ ReturnGenerated

SpecPaths == InitPaths /\ [][NextPaths]_vars

----------------------------------------------------------------------------
(* The runs *)

InitValue ==
    /\ src = "value"
    /\ union \in MapUnions
    /\ x \in Values(union)
    /\ mut = NoMutation
    /\ m = <<>> /\ base = JNull /\ wire = JNull
    /\ dec = Err(NoErr) /\ acc = "" /\ nar = Err(NoErr) /\ m2 = <<>>
    /\ pc = "value"

InitPayload ==
    /\ src = "payload"
    /\ union \in Unions
    /\ \E p \in Payloads(union) : mut = p[1] /\ base = p[2] /\ wire = p[3]
    /\ x = Nil /\ m = <<>>
    /\ dec = Err(NoErr) /\ acc = "" /\ nar = Err(NoErr) /\ m2 = <<>>
    /\ pc = "wire"

InitMap ==
    /\ src = "map"
    /\ union \in MapUnions
    /\ \E j \in RawMaps(union) : dec = Ok(j)
    /\ mut = NoMutation
    /\ x = Nil /\ m = <<>> /\ base = JNull /\ wire = JNull
    /\ acc = "" /\ nar = Err(NoErr) /\ m2 = <<>>
    /\ pc = "decoded"

Init == (InitValue \/ InitPayload \/ InitMap) /\ GenIdle /\ RunIdle

\* m := x.Encode()
DoEncode ==
    /\ pc = "value"
    /\ m' = Encode(union, x)
    /\ pc' = "encoded"
    /\ UNCHANGED <<src, union, x, mut, base, wire, dec, acc, nar, m2>>
    /\ UNCHANGED <<genVars, runVars>>

\* wire := json.Marshal(m)
DoMarshal ==
    /\ pc = "encoded"
    /\ wire' = MarshalJSON(GV(union, m))
    /\ base' = wire'
    /\ pc' = "wire"
    /\ UNCHANGED <<src, union, x, mut, m, dec, acc, nar, m2>>
    /\ UNCHANGED <<genVars, runVars>>

\* err := json.Unmarshal(wire, &j)
DoUnmarshal ==
    /\ pc = "wire"
    /\ dec' = UnmarshalJSON(union, wire)
    /\ pc' = "decoded"
    /\ UNCHANGED <<src, union, x, mut, m, base, wire, acc, nar, m2>>
    /\ UNCHANGED <<genVars, runVars>>

\* v, err := j.Interface()
DoInterface ==
    /\ pc = "decoded"
    /\ dec.err = NoErr
    /\ union \in MapUnions
    /\ acc' = "Interface"
    /\ nar' = Interface(union, dec.val)
    /\ pc' = "narrowed"
    /\ UNCHANGED <<src, union, x, mut, m, base, wire, dec, m2>>
    /\ UNCHANGED <<genVars, runVars>>

\* v, err := j.AsX(), X the variant of tag a
DoAs(a) ==
    /\ pc = "decoded"
    /\ dec.err = NoErr
    /\ union \in MapUnions
    /\ acc' = a
    /\ nar' = As(union, a, dec.val)
    /\ pc' = "narrowed"
    /\ UNCHANGED <<src, union, x, mut, m, base, wire, dec, m2>>
    /\ UNCHANGED <<genVars, runVars>>

\* m2 := v.Encode()
DoReEncode ==
    /\ pc = "narrowed"
    /\ nar.err = NoErr
    /\ m2' = Encode(union, nar.val)
    /\ pc' = "reencoded"
    /\ UNCHANGED <<src, union, x, mut, m, base, wire, dec, acc, nar>>
    /\ UNCHANGED <<genVars, runVars>>

\* m := NewNullableArrayType(x).Encode(), x the element type
DoNewNullableArrayType ==
    /\ pc = "value"
    /\ union = "Type"
    /\ m' = NullableType_Encode(NewNullableArrayType(x))
    /\ acc' = "NewNullableArrayType"
    /\ pc' = "constructed"
    /\ UNCHANGED <<src, union, x, mut, base, wire, dec, nar, m2>>
    /\ UNCHANGED <<genVars, runVars>>

Next ==
    \/ DoEncode
    \/ DoNewNullableArrayType
    \/ DoMarshal
    \/ DoUnmarshal
    \/ DoInterface
    \/ \E a \in Tags(union) : DoAs(a)
    \/ DoReEncode

Spec == Init /\ [][Next]_vars


----------------------------------------------------------------------------
(* Properties *)

\* A run that started from a typed value of union u decodes without error
\* and Interface() gives back the value it started from.
RoundTripOf(u) ==
    (src = "value" /\ union = u) =>
        /\ pc \in {"decoded", "narrowed", "reencoded"} => dec.err = NoErr
        /\ (pc \in {"narrowed", "reencoded"} /\ acc = "Interface") =>
               (nar.err = NoErr /\ nar.val = x)

\* C1: a Type tree built from Named, Nullable and Array, encoded, decoded
\* with Type.UnmarshalJSON and narrowed with Interface(), comes back equal
\* to the tree it started as: same tag, name and nesting at every level, a
\* Nullable directly wrapping a Nullable included.
TypeRoundTrip == RoundTripOf("Type")

\* A Nullable(Nullable(Named "Int")) went through the round trip.
TypeRoundTripWitness ==
    /\ src = "value" /\ union = "Type" /\ pc = "narrowed" /\ acc = "Interface"
    /\ x = [Type |-> TypeNullable,
            UnderlyingType |-> NullableType_Encode(
                [Type |-> TypeNullable,
                 UnderlyingType |-> NamedType_Encode(NewNamedType("Int"))])]
    /\ nar.val = x

\* C2: an Expression tree of any of the seven variants, encoded, decoded
\* with Expression.UnmarshalJSON and narrowed with Interface(), comes back
\* equal to the tree it started as; the decoded map has the tag of the tree
\* and exactly the keys Encode wrote, so no key of another variant; 'and'
\* and 'or' with no sub-expressions decode to an empty list.
ExpressionRoundTrip ==
    /\ RoundTripOf("Expression")
    /\ (src = "value" /\ union = "Expression" /\ pc \in {"decoded", "narrowed", "reencoded"}) =>
          /\ dec.err = NoErr
          /\ DOMAIN dec.val = DOMAIN m
          /\ dec.val["type"].v = x.Type
          /\ x.Type \in {ExpressionTypeAnd, ExpressionTypeOr} =>
                Len(dec.val["expressions"].v) = Len(x.Expressions)

\* An 'or' without sub-expressions went through the round trip.
ExpressionRoundTripWitness ==
    /\ src = "value" /\ union = "Expression" /\ pc = "narrowed" /\ acc = "Interface"
    /\ x.Type = ExpressionTypeOr
    /\ x.Expressions = <<>>
    /\ dec.val["expressions"].v = <<>>
    /\ nar.val = x

\* C3: a payload whose "type" is absent, is not a JSON string or is a
\* string that is no tag of the union fails to decode, for each of the ten
\* decoders, and nothing is assigned to the receiver.
DiscriminantRejection ==
    (src = "payload" /\ mut.kind \in {"absent", "nonstring", "unknown"} /\ pc = "decoded") =>
        (dec.err # NoErr /\ dec.val = Nil)

\* A Type payload with the tag "bogus" was refused.
DiscriminantRejectionWitness ==
    /\ src = "payload" /\ union = "Type" /\ mut.kind = "unknown" /\ pc = "decoded"
    /\ wire.v["type"] = JStr("bogus")
    /\ dec.err # NoErr

\* The discriminant of the raw map j of union u; "" when there is none or it
\* is of a type that is no discriminant.
Discriminant(u, j) ==
    IF "type" \in DOMAIN j /\ j["type"] # Nil /\ j["type"].g \in {"string", EnumType(u)}
    THEN j["type"].v
    ELSE ""

\* C4: an accessor AsX called on a value whose discriminant is not X, be it
\* another tag, no tag, a tag of a non-string type or an unknown word,
\* returns an error and no struct.
NarrowingSafety ==
    (pc = "narrowed" /\ acc # "Interface" /\ Discriminant(union, dec.val) # acc) =>
        (nar.err # NoErr /\ nar.val = Nil)

\* AsStarCount was called on an Aggregate whose discriminant is a number.
NarrowingSafetyWitness ==
    /\ src = "map" /\ union = "Aggregate" /\ pc = "narrowed"
    /\ acc = AggregateTypeStarCount
    /\ "type" \in DOMAIN dec.val /\ dec.val["type"] = GV("float64", "1")
    /\ nar.err # NoErr

\* C5: a payload with a valid discriminant and one mandatory key of its
\* variant removed fails to decode with a message that has the name of the
\* key and the tag of the variant in it.
MissingKeyDiagnostics ==
    (src = "payload" /\ mut.kind = "drop" /\ mut.key \notin OptionalKeys(union) /\ pc = "decoded") =>
        /\ dec.err # NoErr
        /\ mut.key \in Range(dec.err)
        /\ base.v["type"].v \in Range(dec.err)

\* The payload is an 'exists' expression whose in_collection is an object
\* of type 'unrelated' without 'arguments'.
ExistsUnrelatedWithoutArguments(p) ==
    /\ p.j = "object"
    /\ "type" \in DOMAIN p.v /\ p.v["type"] = JStr(ExpressionTypeExists)
    /\ "in_collection" \in DOMAIN p.v
    /\ p.v["in_collection"].j = "object"
    /\ "type" \in DOMAIN p.v["in_collection"].v
    /\ p.v["in_collection"].v["type"] = JStr(ExistsInCollectionTypeUnrelated)
    /\ "arguments" \notin DOMAIN p.v["in_collection"].v

FlatUnions == {"Field", "Aggregate", "OrderByTarget", "ComparisonValue", "ExistsInCollection"}

NamesGiven(u, v) ==
    CASE u = "Field" ->
           IF v.Type = FieldTypeColumn THEN v.Column # "" ELSE v.Relationship # ""
      [] u = "Aggregate" ->
           CASE v.Type = AggregateTypeSingleColumn -> v.Column # "" /\ v.Function # ""
             [] v.Type = AggregateTypeColumnCount -> v.Column # ""
             [] OTHER -> TRUE
      [] u = "OrderByTarget" ->
           CASE v.Type = OrderByTargetTypeColumn -> v.Column # ""
             [] v.Type = OrderByTargetTypeSingleColumnAggregate -> v.Column # "" /\ v.Function # ""
             [] OTHER -> TRUE
      [] u = "ComparisonValue" ->
           IF v.Type = ComparisonValueTypeVariable THEN v.Name # "" ELSE TRUE
      [] u = "ExistsInCollection" ->
           IF v.Type = ExistsInCollectionTypeRelated THEN v.Relationship # "" ELSE v.Collection # ""
      [] OTHER -> TRUE

AddedKeysIgnored ==
    (src = "payload" /\ mut.kind = "none" /\ pc = "decoded") =>
        /\ dec.err = NoErr
        /\ dec = UnmarshalJSON(union, base)
        /\ union \in MapUnions =>
              ("type" \in DOMAIN dec.val /\ DOMAIN dec.val \subseteq DOMAIN base.v)

\* A star_count Aggregate carrying "column" and an unknown key was decoded.
AddedKeysIgnoredWitness ==
    /\ src = "payload" /\ union = "Aggregate" /\ mut.kind = "none" /\ pc = "decoded"
    /\ base.v["type"] = JStr(AggregateTypeStarCount)
    /\ {"column", "zzz"} \subseteq DOMAIN wire.v
    /\ DOMAIN dec.val = {"type"}

\* The decoded comparison values vs are those of the JSON list js, one for
\* one in the same positions.
SameValues(vs, js) ==
    /\ Len(vs) = Len(js)
    /\ \A i \in 1..Len(js) : MarshalJSON(GV("ComparisonValue", vs[i])) = js[i]

\* The payload is a binary_array_comparison_operator with a list of values.
BinaryArrayPayload(p) ==
    /\ p.j = "object"
    /\ "type" \in DOMAIN p.v
    /\ p.v["type"] = JStr(ExpressionTypeBinaryArrayComparisonOperator)
    /\ "values" \in DOMAIN p.v
    /\ p.v["values"].j = "array"

\* C9: the values of a decoded binary_array_comparison_operator, those of
\* the struct AsBinaryArrayComparisonOperator (or Interface) narrows it to
\* and those of the map that struct encodes to are the values of the
\* payload: as many, the same, in the same positions.
ValuesOrderPreserved ==
    (union = "Expression" /\ pc \in {"decoded", "narrowed", "reencoded"}
     /\ BinaryArrayPayload(wire) /\ dec.err = NoErr) =>
        /\ SameValues(dec.val["values"].v, wire.v["values"].v)
        /\ (pc \in {"narrowed", "reencoded"} /\ nar.err = NoErr) =>
              SameValues(nar.val.Values, wire.v["values"].v)
        /\ pc = "reencoded" => SameValues(m2["values"].v, wire.v["values"].v)

\* A payload with two different values was decoded, narrowed with
\* AsBinaryArrayComparisonOperator and encoded again.
ValuesOrderPreservedWitness ==
    /\ union = "Expression" /\ src = "payload" /\ pc = "reencoded"
    /\ acc = ExpressionTypeBinaryArrayComparisonOperator
    /\ BinaryArrayPayload(wire)
    /\ Len(wire.v["values"].v) = 2
    /\ wire.v["values"].v[1] # wire.v["values"].v[2]
    /\ Len(m2["values"].v) = 2

\* The statements of the branch labelled name in prog, the label first.
RECURSIVE UpToCase(_)
UpToCase(stmts) ==
    IF stmts = <<>> \/ Head(stmts).op = "case" THEN <<>>
    ELSE <<Head(stmts)>> \o UpToCase(Tail(stmts))

Branch(prog, name) ==
    LET labels == {i \in 1..Len(prog) : prog[i] = Stmt("case", name)} IN
    IF labels = {} THEN <<>>
    ELSE LET i == CHOOSE k \in labels : \A l \in labels : k <= l IN
         <<prog[i]>> \o UpToCase(SubSeq(prog, i + 1, Len(prog)))

\* In the branch b the selection check stands before every statement that
\* resolves or decodes arguments or calls the user function.
RejectsFirst(b) ==
    /\ \E k \in 1..Len(b) : b[k].op = "rejectFields"
    /\ \A i \in 1..Len(b) :
          b[i].op \in {"resolveArguments", "decodeArguments", "returnCall", "callRaw", "callResult"}
              => \E k \in 1..(i - 1) : b[k].op = "rejectFields"

\* The operations of the schema the request names.
Named == {i \in 1..Len(Operations) : Operations[i].Name = request.name}

\* C10: in the generated branch of every function and procedure with a
\* scalar result the selection check stands before argument decoding and
\* before the call of the user function, and a request for such an
\* operation that selects fields is answered with the BadRequest error of
\* that check, no argument decoded and the user function not called.
ScalarSelectionRejected ==
    ip >= 0 =>
        /\ \A i \in 1..Len(rawSchema.Functions) :
              rawSchema.Functions[i].ResultType.IsScalar =>
                  RejectsFirst(Branch(code.Queries, rawSchema.Functions[i].Name))
        /\ \A i \in 1..Len(rawSchema.Procedures) :
              rawSchema.Procedures[i].ResultType.IsScalar =>
                  RejectsFirst(Branch(code.Procedures, rawSchema.Procedures[i].Name))
        /\ \A i \in Named :
              (Operations[i].ResultType.IsScalar /\ request.fields > 0) =>
                  /\ \A k \in 1..Len(log) : log[k] = "rejectFields"
                  /\ response \in {NoResponse,
                                   BadRequestError("cannot evaluate selection fields for scalar", "nil")}
                  /\ ip > 0 => (log # <<>> => response # NoResponse)

\* A request with fields and arguments that do not decode, for the second
\* function of a schema, scalar and with arguments, got the BadRequest error
\* of the selection check.
ScalarSelectionRejectedWitness ==
    /\ ip > 0
    /\ request.kind = "query" /\ request.name = "op2" /\ request.fields > 0
    /\ request.arguments = "invalid"
    /\ Len(rawSchema.Functions) = 2
    /\ rawSchema.Functions[2].ResultType.IsScalar
    /\ rawSchema.Functions[2].ArgumentsType # ""
    /\ log = <<"rejectFields">>
    /\ response = BadRequestError("cannot evaluate selection fields for scalar", "nil")
----------------------------------------------------------------------------
(* The generated branches: results, arguments, selections, errors *)

\* The user function was called in the running branch.
Called == \E k \in 1..Len(log) : log[k] \in {"returnCall", "callRaw", "callResult"}

\* C11: a branch whose user function returned a nil result and no error
\* returns the nil success when the declared result type is nullable and
\* the BadRequest error 'expected not null result' when it is not,
\* whatever the shape of the result.
NullResultPolicy ==
    \A i \in Named :
        (Called /\ request.outcome = "nil" /\ response # NoResponse) =>
            response = IF Operations[i].ResultType.IsNullable
                       THEN Resp("ok", "nil", "nil")
                       ELSE BadRequestError("expected not null result", "nil")

\* The statements of a branch that call the user function.
Calls == {"returnCall", "callRaw", "callResult"}

\* The statements of a branch that resolve or decode the arguments.
Decodes == {"resolveArguments", "decodeArguments"}

\* In the branch b of the operation fn the arguments are decoded before the
\* call, which passes them, when fn declares an arguments type; otherwise
\* nothing is decoded and the call passes no arguments.
DecodesFirst(b, fn) ==
    /\ \E k \in 1..Len(b) : b[k].op \in Calls
    /\ IF fn.ArgumentsType # ""
       THEN \A i \in 1..Len(b) :
                b[i].op \in Calls =>
                    /\ b[i].arg = ", &args"
                    /\ \E k \in 1..(i - 1) : b[k].op = "decodeArguments"
       ELSE \A i \in 1..Len(b) :
                /\ b[i].op \notin Decodes
                /\ b[i].op \in Calls => b[i].arg = ""

\* C12: the branch of an operation with an arguments type decodes the
\* arguments before the call that passes them; when resolving or decoding
\* fails the branch returns a BadRequest error with the cause in its
\* details and the user function is not called; the user function of such
\* an operation is called only for arguments that decoded.  The branch of
\* an operation without arguments type decodes nothing and calls the
\* function without arguments.
ArgumentsDecodedBeforeCall ==
    ip >= 0 =>
        /\ \A i \in 1..Len(rawSchema.Functions) :
              DecodesFirst(Branch(code.Queries, rawSchema.Functions[i].Name),
                           rawSchema.Functions[i])
        /\ \A i \in 1..Len(rawSchema.Procedures) :
              DecodesFirst(Branch(code.Procedures, rawSchema.Procedures[i].Name),
                           rawSchema.Procedures[i])
        /\ \A i \in Named :
              IF Operations[i].ArgumentsType # ""
              THEN /\ (log # <<>> /\ log[Len(log)] \in Decodes /\ request.arguments # "ok"
                          /\ (log[Len(log)] = "resolveArguments" => request.arguments = "unresolved"))
                      => /\ response.status = "BadRequest"
                         /\ response.details = "cause"
                         /\ ~Called
                   /\ Called => /\ request.arguments = "ok"
                                /\ \E k \in 1..Len(log) : log[k] = "decodeArguments"
                                /\ \A k \in 1..Len(log) :
                                      log[k] \in Decodes => \A l \in 1..k : log[l] \notin Calls
              ELSE \A k \in 1..Len(log) : log[k] \notin Decodes

\* A procedure with an arguments type and an object result got arguments
\* that do not decode: its branch narrowed the selection, failed to decode
\* and returned the BadRequest error with the cause.
ArgumentsDecodedBeforeCallWitness ==
    /\ request.kind = "mutation" /\ request.name = "op2" /\ request.arguments = "invalid"
    /\ Len(rawSchema.Procedures) = 2
    /\ rawSchema.Procedures[2].ArgumentsType # ""
    /\ log = <<"selection", "decodeArguments">>
    /\ response = BadRequestError("failed to decode arguments", "cause")

\* In the branch b of a procedure with the result type ty the selection is
\* narrowed, to the array form when ty is an array and to the object form
\* otherwise, before the arguments are decoded and the function is called.
NarrowsFirst(b, ty) ==
    /\ \E k \in 1..Len(b) : b[k].op = "selection"
    /\ \A i \in 1..Len(b) :
          /\ b[i].op = "selection" =>
                b[i].arg = IF ty.IsArray THEN "operation.Fields.AsArray"
                           ELSE "operation.Fields.AsObject"
          /\ b[i].op \in Decodes \cup Calls => \E k \in 1..(i - 1) : b[k].op = "selection"

\* The form of selection set a result of the type ty asks for.
FormOf(ty) == IF ty.IsArray THEN "array" ELSE "object"

\* C13: the branch of every procedure with a non-scalar result narrows the
\* selection, to the array form for an array result and to the object form
\* otherwise, before it decodes arguments and calls the user function; a
\* request whose selection has another form is answered with the
\* BadRequest error of the narrowing and the user function is not called.
SelectionNarrowedFirst ==
    ip >= 0 =>
        /\ \A i \in 1..Len(rawSchema.Procedures) :
              ~rawSchema.Procedures[i].ResultType.IsScalar =>
                  NarrowsFirst(Branch(code.Procedures, rawSchema.Procedures[i].Name),
                               rawSchema.Procedures[i].ResultType)
        /\ \A i \in Named :
              (request.kind = "mutation" /\ ~Operations[i].ResultType.IsScalar) =>
                  /\ log # <<>> => log[1] = "selection"
                  /\ request.selection # FormOf(Operations[i].ResultType) =>
                        /\ ~Called
                        /\ \A k \in 1..Len(log) : log[k] = "selection"
                        /\ response \in
                              {NoResponse,
                               BadRequestError(IF Operations[i].ResultType.IsArray
                                               THEN "the selection field type must be array"
                                               ELSE "the selection field type must be object",
                                               "cause")}
                        /\ log # <<>> => response # NoResponse

\* A procedure with an array result and an arguments type got an object
\* selection: the narrowing failed and nothing else ran.
SelectionNarrowedFirstWitness ==
    /\ request.kind = "mutation" /\ request.name = "op1" /\ request.selection = "object"
    /\ Len(rawSchema.Procedures) >= 1
    /\ rawSchema.Procedures[1].ResultType.IsArray
    /\ ~rawSchema.Procedures[1].ResultType.IsScalar
    /\ rawSchema.Procedures[1].ArgumentsType # ""
    /\ log = <<"selection">>
    /\ response = BadRequestError("the selection field type must be array", "cause")

\* C14: when the user function returned an error, what the branch returns
\* is a BadRequest error carrying the message of that error, and the branch
\* projects no result.
UserErrorIsBadRequest ==
    (Called /\ request.outcome \in {"err", "badRequest"} /\ response # NoResponse) =>
        /\ response.status = "BadRequest"
        /\ "cause" \in {response.message, response.details}
        /\ \A k \in 1..Len(log) : log[k] # "encode"

\* C14 as amended: when the user function returned an error, the branch
\* returns that error itself, with the class and the message the user
\* function gave it, for scalar and non-scalar results alike, and projects
\* no result.
UserErrorReturned ==
    (Called /\ request.outcome \in {"err", "badRequest"}) =>
        /\ response \in {NoResponse, UserFunction.err}
        /\ response # NoResponse => response.message = "cause"
        /\ \A k \in 1..Len(log) : log[k] \notin {"checkNil", "encode", "returnResult"}
        /\ (log[Len(log)] = "checkErr" \/ log[Len(log)] = "returnCall") => response # NoResponse

\* The user function of a function with an array result returned a plain
\* error: the branch returned it from the check after the call.
UserErrorReturnedWitness ==
    /\ request.kind = "query" /\ request.name = "op1" /\ request.outcome = "err"
    /\ Len(rawSchema.Functions) >= 1
    /\ ~rawSchema.Functions[1].ResultType.IsScalar
    /\ rawSchema.Functions[1].ResultType.IsArray
    /\ Called /\ log[Len(log)] = "checkErr"
    /\ response = Resp("error", "cause", "nil")

----------------------------------------------------------------------------
(* The generation run: determinism, order, object methods, complex types,  *)
(* errors                                                                  *)

\* The run returned nil and every file it writes is on disk with its text.
Complete(fs) ==
    /\ schemaOutputFile \in DOMAIN fs
    /\ connectorOutputFile \in DOMAIN fs
    /\ fs[connectorOutputFile] # <<>>

\* C15: two runs of generateConnector over the same catalogue that both
\* returned nil with their files written leave the same files with the
\* same text.
Determinism ==
    (env.at = "returned" /\ response = NoResponse /\ previous # <<>>
        /\ Complete(previous) /\ Complete(files)
        /\ DOMAIN files = DOMAIN previous)
    => files = previous

\* The strings are in ascending order.
Ascending(s) == \A i \in 1..Len(s) : \A k \in (i + 1)..Len(s) : Rank(s[i]) < Rank(s[k])

\* The second names of the lines of the kinds given, in their order.
Written(lines, kinds) ==
    LET Test(l) == l.t \in kinds
        chosen == SelectSeq(lines, Test)
    IN  [i \in 1..Len(chosen) |-> IF chosen[i].t = "import" THEN chosen[i].b ELSE chosen[i].a]

\* getSortedKeys gives every key of the registry once, in ascending order.
KeysSorted(registry) ==
    /\ Range(getSortedKeys(registry)) = DOMAIN registry
    /\ Len(getSortedKeys(registry)) = Cardinality(DOMAIN registry)
    /\ Ascending(getSortedKeys(registry))

\* C16: whatever a run has written follows the ascending order of the keys:
\* the import lines of the dispatch file and of every types file, the
\* ToMap methods of the objects, the ScalarName methods of the custom
\* scalars, the decoders of the arguments of a function; getSortedKeys
\* gives every key of a registry once, in ascending order.
SortedIteration ==
    /\ \A i \in 1..Len(writer) : Ascending(writer[i].Imports)
    /\ \A p \in DOMAIN files \ {schemaOutputFile, connectorOutputFile} :
          /\ Ascending(Written(files[p], {"import"}))
          /\ Ascending(Written(files[p], {"func ToMap"}))
          /\ Ascending(Written(files[p], {"func ScalarName"}))
          /\ Ascending(Written(files[p], {"utils.GetString", "utils.GetNullableInt[int]",
                                          "utils.DecodeNullableObjectValue"}))
    /\ env.at # "start" =>
          /\ KeysSorted(rawSchema.Objects)
          /\ KeysSorted(rawSchema.CustomScalars)
          /\ \A i \in 1..Len(rawSchema.Functions) : KeysSorted(rawSchema.Functions[i].Arguments)
          /\ \A o \in DOMAIN rawSchema.Objects : KeysSorted(rawSchema.Objects[o].Fields)

\* The positions of the ToMap method of the object in the text of a builder.
ToMapMethods(builder, objectName) ==
    {i \in 1..Len(builder) : builder[i].t = "func ToMap" /\ builder[i].a = objectName}

\* The object whose ToMap method holds the line i of the text of a builder.
MethodOf(builder, i) ==
    LET before == {k \in 1..(i - 1) : builder[k].t = "func ToMap"}
    IN  IF before = {} THEN ""
        ELSE builder[CHOOSE k \in before : \A k2 \in before : k2 <= k].a

\* The object has a field of an anonymous object type.
HoldsAnonymous(objects, objectName) ==
    /\ objectName \in DOMAIN objects
    /\ \E k \in DOMAIN objects[objectName].Fields :
          LET ty == objects[objectName].Fields[k].Type
          IN  /\ ~ty.IsScalar
              /\ ty.Name \in DOMAIN objects
              /\ objects[ty.Name].IsAnonymous

\* C17: once genObjectMethods has run, the builder of the package of a
\* named object holds exactly one ToMap method of it and no other builder
\* holds one; no builder holds a ToMap method of an anonymous object; the
\* map of an anonymous object is built only inside the ToMap method of a
\* named object that holds it, which sets the field from that map.
OneToMapPerNamedObject ==
    ("genObjectMethods" \in Range(log) /\ ~env.panic) =>
        /\ \A objectName \in DOMAIN rawSchema.Objects :
              LET object == rawSchema.Objects[objectName]
              IN  \A folderPath \in DOMAIN typeBuilders \cup {object.PackageName} :
                     /\ folderPath \in DOMAIN typeBuilders
                     /\ Cardinality(ToMapMethods(typeBuilders[folderPath].builder, objectName))
                          = IF ~object.IsAnonymous /\ folderPath = object.PackageName
                            THEN 1 ELSE 0
        /\ \A folderPath \in DOMAIN typeBuilders :
              LET builder == typeBuilders[folderPath].builder
              IN  \A i \in 1..Len(builder) :
                     (builder[i].t \in {"map", "var"} /\ builder[i].a # "result") =>
                         /\ HoldsAnonymous(rawSchema.Objects, MethodOf(builder, i))
                         /\ ~rawSchema.Objects[MethodOf(builder, i)].IsAnonymous
        /\ \A objectName \in DOMAIN rawSchema.Objects :
              (~rawSchema.Objects[objectName].IsAnonymous
                  /\ HoldsAnonymous(rawSchema.Objects, objectName)) =>
                  LET builder == typeBuilders[rawSchema.Objects[objectName].PackageName].builder
                  IN  \E i \in 1..Len(builder) :
                         /\ MethodOf(builder, i) = objectName
                         /\ builder[i].t = "field"
                         /\ builder[i].b = "result_" \o builder[i].a

\* A run has generated the ToMap method of the named object A, which
\* holds the anonymous object X as an array.
OneToMapPerNamedObjectWitness ==
    /\ "genObjectMethods" \in Range(log)
    /\ "X" \in DOMAIN rawSchema.Objects
    /\ rawSchema.Objects["X"].IsAnonymous
    /\ rawSchema.Objects["A"].Fields["f"].Type.IsArray
    /\ "functions" \in DOMAIN typeBuilders
    /\ ToMapMethods(typeBuilders["functions"].builder, "A") # {}
    /\ \E i \in 1..Len(typeBuilders["functions"].builder) :
          typeBuilders["functions"].builder[i] = Line("var", "result_f", "[]map[string]any")

\* A type of the catalogue is a complex number, or a slice or pointer of one.
IsComplex(ty) == strings_Contains(ty.TypeAST, "complex64") \/ strings_Contains(ty.TypeAST, "complex128")

\* The types of the arguments and results of the functions and procedures.
OperationTypes(schema) ==
    UNION {{list[i].ResultType}
           \cup {list[i].Arguments[k].Type : k \in DOMAIN list[i].Arguments} :
           <<list, i>> \in {<<schema.Functions, j>> : j \in DOMAIN schema.Functions}
                            \cup {<<schema.Procedures, j>> : j \in DOMAIN schema.Procedures}}

\* The objects that the types given reference, through n levels of fields.
RECURSIVE Referenced(_, _, _)
Referenced(objects, types, n) ==
    LET direct == {ty.Name : ty \in {t \in types : ~t.IsScalar}} \cap DOMAIN objects
    IN  IF n = 0 \/ direct = {} THEN direct
        ELSE direct \cup Referenced(objects,
                             UNION {{objects[o].Fields[k].Type : k \in DOMAIN objects[o].Fields} :
                                    o \in direct}, n - 1)

\* Some argument or result of a function or procedure, or some field of an
\* object they reference, is of a complex type.
HasComplex(schema) ==
    \/ \E ty \in OperationTypes(schema) : IsComplex(ty)
    \/ \E o \in Referenced(schema.Objects, OperationTypes(schema),
                            Cardinality(DOMAIN schema.Objects)) :
          \E k \in DOMAIN schema.Objects[o].Fields : IsComplex(schema.Objects[o].Fields[k].Type)

\* C18: the run over a catalogue with a complex type panics in the
\* generation of the type methods: it goes no further than the argument
\* constructors, writes no types file and never ends without a failure;
\* the run over a catalogue without one never panics.
ComplexRejected ==
    /\ HasComplex(rawSchema) =>
          /\ "genFunctionArgumentConstructors" \in Range(log) => env.panic
          /\ DOMAIN files \subseteq {schemaOutputFile, connectorOutputFile}
          /\ ~(env.at = "returned" /\ env.failed = "")
    /\ ~HasComplex(rawSchema) => ~env.panic

\* C19: the run takes its steps in the order schema.generated.json,
\* connector.generated.go, types.generated.go; when it returns nil every
\* file is written with its whole text, and when a call failed it returns
\* an error.
AllOrNothing ==
    /\ \A i \in 1..Len(log) : \A k \in (i + 1)..Len(log) :
          /\ log[k] # schemaOutputFile
          /\ log[k] = "os.Create" => log[i] = schemaOutputFile
          /\ log[k] = "connectorTemplate.Execute" => log[i] \in {schemaOutputFile, "os.Create"}
    /\ (env.at = "returned" /\ response = NoResponse) =>
          /\ Complete(files)
          /\ \A folderPath \in DOMAIN typeBuilders :
                (folderPath \o "/" \o typeMethodsOutputFile) \in DOMAIN files
    /\ (env.at = "returned" /\ env.failed # "") => response # NoResponse

\* No line of the text declares a local name that its scope holds already;
\* scopes the sets of names declared in the open blocks, innermost last.
RECURSIVE NoRedeclaration(_, _)
NoRedeclaration(lines, scopes) ==
    IF lines = <<>> THEN TRUE
    ELSE
    LET l == Head(lines)
        declared == [scopes EXCEPT ![Len(scopes)] = @ \cup {l.a}]
    IN  CASE l.t = "func ToMap" -> NoRedeclaration(Tail(lines), <<{}>>)
          [] l.t = "var" ->
                /\ l.a \notin scopes[Len(scopes)]
                /\ NoRedeclaration(Tail(lines), declared)
          [] l.t = "map" /\ l.b = ":=" ->
                /\ l.a \notin scopes[Len(scopes)]
                /\ NoRedeclaration(Tail(lines), Append(declared, {}))
          [] l.t = "map" /\ l.b # ":=" -> NoRedeclaration(Tail(lines), Append(scopes, {}))
          [] l.t \in {"for", "if"} -> NoRedeclaration(Tail(lines), Append(scopes, {}))
          [] l.t = "}" -> NoRedeclaration(Tail(lines), SubSeq(scopes, 1, Len(scopes) - 1))
          [] OTHER -> NoRedeclaration(Tail(lines), scopes)

\* C22: once genObjectMethods has run, no ToMap method of a builder
\* declares the same local name twice in one scope.
SynthesizedNamesDistinct ==
    ("genObjectMethods" \in Range(log) /\ ~env.panic) =>
        \A folderPath \in DOMAIN typeBuilders :
            NoRedeclaration(typeBuilders[folderPath].builder, <<{}>>)

----------------------------------------------------------------------------
(* The constructors of the nullable types *)

\* C21: the type NewNullableArrayType builds from an element type narrows
\* with AsNullable, its underlying type narrows with AsArray, and the
\* element type of that array is the encoding of the element type given.
NullableArrayOfElement ==
    (pc = "constructed" /\ acc = "NewNullableArrayType") =>
        LET nullable == Type_AsNullable(m) IN
        /\ nullable.err = NoErr
        /\ LET array == Type_AsArray(nullable.val.UnderlyingType) IN
           /\ array.err = NoErr
           /\ array.val.ElementType = TypeEncoder_Encode(x)

\* C27: a payload that UnmarshalJSON accepts narrows: Interface() and the
\* accessor of the discriminant of the decoded value return without error.
DecodeImpliesNarrowing ==
    (src = "payload" /\ pc = "narrowed"
        /\ (acc = "Interface" \/ acc = Discriminant(union, dec.val))) =>
        nar.err = NoErr

----------------------------------------------------------------------------
(* Claims about the calls of genObjectToMap *)

\* The fields of the registry whose type is an anonymous object.
AnonymousFields(objects) ==
    {<<o, k>> \in UNION {{<<o, k>> : k \in DOMAIN objects[o].Fields} : o \in DOMAIN objects} :
        IsInlined(objects, objects[o].Fields[k])}

\* The calls stay below the deepest stack of the runs, every call but the
\* first expands an anonymous object, and there are at most two calls for
\* each field of an anonymous type.
ExpansionBounded ==
    /\ env.at = "genObjectToMap" => Len(env.stack) < MaxCallDepth
    /\ \A i \in 2..Len(log) : rawSchema.Objects[log[i]].IsAnonymous
    /\ Len(log) <= 1 + 2 * Cardinality(AnonymousFields(rawSchema.Objects))

\* The lines returned hold, for every field of a named object type of the
\* objects expanded, the call of the encode helper on that field.
NamedFieldsEncoded ==
    env.at = "returned" =>
        \A i \in 1..Len(log) :
            \A k \in DOMAIN rawSchema.Objects[log[i]].Fields :
                LET field == rawSchema.Objects[log[i]].Fields[k]
                IN  (~field.Type.IsScalar /\ ~rawSchema.Objects[field.Type.Name].IsAnonymous) =>
                        \E n \in 1..Len(writer) :
                            /\ writer[n].t \in {"utils.EncodeMap", "utils.EncodeMaps",
                                                "utils.EncodeNullableMaps"}
                            /\ writer[n].a = field.Key

----------------------------------------------------------------------------
(* Claims about the decoder of an argument *)

\* The decode call of the primitive category of a type name, with its type
\* argument.
CategoryDecoder(ast) ==
    LET name == strings_TrimPrefix(ast, "*")
        nullable == ast[1] = "*"
        call(category, argument) ==
            "utils.Get" \o (IF nullable THEN "Nullable" ELSE "") \o category \o argument
        of == "[" \o String(name) \o "]"
    IN  CASE name = <<"bool">> -> call("Bool", "")
          [] name = <<"string">> -> call("String", "")
          [] Len(name) = 1 /\ name[1] \in SignedNames -> call("Int", of)
          [] Len(name) = 1 /\ name[1] \in UnsignedNames -> call("Uint", of)
          [] Len(name) = 1 /\ name[1] \in FloatNames -> call("Float", of)
          [] name = <<"time", ".", "Time">> -> call("DateTime", "")
          [] name = <<"time", ".", "Duration">> -> call("Duration", "")
          [] OTHER -> IF nullable THEN "utils.DecodeNullableObjectValue"
                      ELSE "utils.DecodeObjectValue"

\* The decode calls among the lines.
DecodeCalls(lines) ==
    {i \in 1..Len(lines) : lines[i].t \notin {"new", "if err != nil"}}

\* C24: the lines genGetTypeValueDecoder writes for an argument hold one
\* decode call, that of the primitive category of the type name, and end
\* with one error check that follows it.
DecoderOfCategory ==
    (env.at \in {"FromValue", "returned"}) =>
        LET lines == typeBuilders["functions"].builder
            ast == request.Type.TypeAST
        IN  /\ Cardinality(DecodeCalls(lines)) = 1
            /\ Len(lines) >= 2
            /\ lines[Len(lines) - 1] = Line(CategoryDecoder(ast), request.FieldName, request.key)
            /\ lines[Len(lines)] = textBlockErrorCheck[1]
            /\ Cardinality({i \in 1..Len(lines) : lines[i].t = "if err != nil"}) = 1

\* C28: after FromValue has run without error on an input in which a
\* nullable argument is absent or null, the field is nil.
AbsentNullableIsNil ==
    (env.at = "returned" /\ env.err = "nil" /\ request.Type.IsNullable
        /\ request.input \in {"absent", "null"}) =>
        env.field = "nil"

----------------------------------------------------------------------------
(* Claims about visitExpression *)

\* The number of expressions of an expression tree.
RECURSIVE ExpressionSize(_)
RECURSIVE ExpressionSizes(_)
ExpressionSizes(expressions) ==
    IF expressions = <<>> THEN 0
    ELSE ExpressionSize(Head(expressions)) + ExpressionSizes(Tail(expressions))
ExpressionSize(expression) ==
    CASE expression["type"].v \in {ExpressionTypeAnd, ExpressionTypeOr} ->
            1 + ExpressionSizes(expression["expressions"].v)
      [] expression["type"].v = ExpressionTypeNot ->
            1 + ExpressionSize(expression["expression"].v)
      [] OTHER -> 1

\* C25: the calls of visitExpression never overflow the stack; every call
\* is for an expression smaller than that of its caller; and the text
\* returned for a 'not' is "NOT " and the text returned for its
\* sub-expression.
VisitDescends ==
    /\ env.at # "stack overflow"
    /\ env.at = "visitExpression" =>
          \A i \in 2..Len(env.stack) :
              ExpressionSize(env.stack[i].expression)
                  < ExpressionSize(env.stack[i - 1].expression)
    /\ \A i \in 1..Len(log) :
          log[i].expression["type"].v = ExpressionTypeNot =>
              \E k \in 1..Len(log) :
                  /\ log[k].expression = log[i].expression["expression"].v
                  /\ log[i].result = "NOT " \o log[k].result

----------------------------------------------------------------------------
(* Claims about the failures of Connector.Query *)

\* C26: no failure of the database makes Query panic: it does not use the
\* rows of a query that failed, and when it returns after a failed call it
\* returns an error.
QueryFailureReturned ==
    /\ env.at # "panic"
    /\ (state.Database.failure = "Query" /\ env.at \notin {"start", "returned"}) =>
          env.rows # "nil"
    /\ (state.Database.failure = "Query" /\ env.at = "returned") => response.err # "nil"

----------------------------------------------------------------------------
(* The places of the artifacts *)

\* The directory the base path names when the run starts.
BaseDirectory == Resolve(request.cwd, request.basePath)

\* The places the artifacts belong at: the schema and the dispatch file at
\* the root of the base directory, the types file of package p in <base>/<p>.
ArtifactPlaces ==
    {Append(BaseDirectory, schemaOutputFile),
     Append(BaseDirectory, connectorOutputFile)}
        \cup {BaseDirectory \o <<p, typeMethodsOutputFile>> : p \in DOMAIN typeBuilders}

\* C29: whatever the base path, every file the run writes is at its place
\* under the base directory, no write fails for want of a directory, and a
\* run that returns nil has written every artifact.
ArtifactsUnderBase ==
    /\ DOMAIN files \subseteq ArtifactPlaces
    /\ env.at = "returned" =>
          /\ env.failed \in {"", "os.Chdir", "parse"}
          /\ env.failed = "" => DOMAIN files = ArtifactPlaces

\* The expressions the lines of genObjectToMap read from the object behind
\* the selector: its fields, and the fields of the anonymous objects it
\* holds other than in arrays, which are read through the loop variable.
RECURSIVE MemberReads(_, _, _)
MemberReads(objects, object, selector) ==
    UNION {LET field == object.Fields[k]
               member == selector \o "." \o field.Name
           IN  {member}
               \cup IF /\ ~field.Type.IsScalar
                       /\ field.Type.Name \in DOMAIN objects
                       /\ objects[field.Type.Name].IsAnonymous
                       /\ ~field.Type.IsArray
                    THEN MemberReads(objects, objects[field.Type.Name], member)
                    ELSE {}
           : k \in DOMAIN object.Fields}

\* The pairs <<selector, expression>>: the selector is a nullable anonymous
\* object field that the object behind the selector given holds, directly
\* or inside its anonymous objects, and the expression reads a member of it.
RECURSIVE NullableReads(_, _, _)
NullableReads(objects, object, selector) ==
    UNION {LET field == object.Fields[k]
               member == selector \o "." \o field.Name
           IN  IF /\ ~field.Type.IsScalar
                  /\ field.Type.Name \in DOMAIN objects
                  /\ objects[field.Type.Name].IsAnonymous
                  /\ ~field.Type.IsArray
               THEN (IF field.Type.IsNullable
                     THEN {<<member, e>> :
                              e \in MemberReads(objects, objects[field.Type.Name], member)}
                     ELSE {})
                    \cup NullableReads(objects, objects[field.Type.Name], member)
               ELSE {}
           : k \in DOMAIN object.Fields}

\* Every line that reads a member of a nullable value stands inside the
\* block of the 'if <selector> != nil {' line of that value: open holds the
\* guard of every block the line is in, "" for a block that is no guard.
RECURSIVE ReadsGuarded(_, _, _, _)
ReadsGuarded(objects, lines, open, reads) ==
    IF lines = <<>> THEN TRUE
    ELSE
    LET l == Head(lines)
        rest == Tail(lines)
        guarded == \A r \in reads : r[2] = l.b => r[1] \in Range(open)
    IN  CASE l.t = "func ToMap" ->
                ReadsGuarded(objects, rest, <<>>, NullableReads(objects, objects[l.a], "j"))
          [] l.t = "if" -> ReadsGuarded(objects, rest, Append(open, l.a), reads)
          [] l.t = "map" -> ReadsGuarded(objects, rest, Append(open, ""), reads)
          [] l.t = "for" -> guarded /\ ReadsGuarded(objects, rest, Append(open, ""), reads)
          [] l.t = "}" ->
                ReadsGuarded(objects, rest, SubSeq(open, 1, Len(open) - 1), reads)
          [] OTHER -> guarded /\ ReadsGuarded(objects, rest, open, reads)

\* C30: once genObjectMethods has run, every line of a ToMap method that
\* reads a member of a nullable anonymous object field, the lines of its
\* nested anonymous objects and arrays included, lies between the line
\* 'if <selector> != nil {' of that field and its closing brace.
NullableReadsGuarded ==
    ("genObjectMethods" \in Range(log) /\ ~env.panic) =>
        \A folderPath \in DOMAIN typeBuilders :
            ReadsGuarded(rawSchema.Objects, typeBuilders[folderPath].builder, <<>>, {})

====
